---- MODULE Spec2Model ----
(***************************************************************************)
(* CamGuard incident core: trigger routing, incident state machine,        *)
(* safety guard, action executor, replan loop and severity ticker.         *)
(* Every coroutine is split at its await points; the datastore is a set    *)
(* of rows that a session reads at a select and writes (changed columns    *)
(* only) at a commit.                                                      *)
(***************************************************************************)
EXTENDS Integers, Sequences, FiniteSets, TLC

(* ------------------------------ bounds -------------------------------- *)
\* incidents rows that may be inserted in one run
MaxIncidents == 2
\* IncidentPlan rows that may be persisted in one run
MaxPlans == 2
\* REST / webhook requests (ack, false_alarm, DTMF) served in one run
MaxRequests == 2
\* severity-ticker iterations per incident
MaxTimeDown == 1
\* plan rows and seconds of the escalation scenario: a first plan and two
\* replan ticks, and the ticker past the escalation delay
MaxEscalationPlans == 3
MaxEscalationDown == 62
\* gateway calls of a run that may fail in the executor scenario
MaxGatewayFailures == 1
\* events on an incident's timeline up to which a planner call may raise
MaxFailures == 2
\* seconds the severity ticker runs in the severity scenario: past the last
\* step of compute_severity
MaxSeverityDown == 121
\* wall clock horizon of the guard specification
MaxClock == 16
\* guard decisions kept in the decision history of the guard specification
MaxHistory == 3
\* log_event calls of one run
MaxEvents == 4
\* websocket connections opened in one run
MaxSockets == 2
\* maxlen of logging._write_queue; the code's deque holds 10000 events, the
\* model's holds this many
maxlen == 3
\* config suggestions applied in one run
MaxConfigUpdates == 1
\* fall triggers of one run that name a camera that is not registered
MaxErrors == 2
\* exceptions raised inside replan and ticker iterations of one run
MaxLoopErrors == 1

(* ------------------------- program constants -------------------------- *)
cooldown_contact_s == 5
max_primary_call_attempts == 2
max_escalation_stage == 2
\* time.time() of the first guard evaluation, relative to the 0 default of
\* _last_contact_time.get(camera_id, 0): any epoch time is >= the cooldown
StartClock == 5

CameraIds == {"cam1"}

ActionTypes == {"INCREASE_CHECK_RATE", "SEND_LOW_PRIORITY_HEADSUP",
                "SEND_SMS_PRIMARY", "START_VOICE_CALL_PRIMARY",
                "ESCALATE_TO_BACKUP", "CANCEL_ESCALATION", "CLOSE_INCIDENT",
                "REQUEST_STRONG_VERIFY"}

ContactClass == {"SEND_SMS_PRIMARY", "START_VOICE_CALL_PRIMARY",
                 "SEND_LOW_PRIORITY_HEADSUP"}

PlanAction(type, delay_s) == [type |-> type, delay_s |-> delay_s]

(* ------------------------------ guard --------------------------------- *)
\* _last_contact_time.get(camera_id, 0)
last_contact_of(last, camera_id) ==
    IF camera_id \in DOMAIN last THEN last[camera_id] ELSE 0

\* _primary_call_counts.get(camera_id, 0)
call_count_of(calls, camera_id) ==
    IF camera_id \in DOMAIN calls THEN calls[camera_id] ELSE 0

\* dict.pop(camera_id, None)
pop(map, camera_id) == [c \in DOMAIN map \ {camera_id} |-> map[c]]

\* dict[camera_id] = value
put(map, camera_id, value) == (camera_id :> value) @@ map

in_cooldown_mut(t, last_contact, cooldown) == FALSE
in_cooldown(t, last_contact, cooldown) == t - last_contact < cooldown

call_cap_reached_mut(call_count, max_calls) == call_count > max_calls
call_cap_reached(call_count, max_calls) == call_count >= max_calls

\* one iteration of the for loop of approve_plan; g is the running result
\* [approved, decisions, last, calls]
guard_step(g, action, camera_id, t, acknowledged, voice_enabled, sms_enabled, escalation_stage, cooldown, max_calls, max_stage) ==
    LET type == action.type
        reject(reason) ==
            [g EXCEPT !.decisions =
                Append(@, [action |-> type, approved |-> FALSE, reason |-> reason])]
        accept(last, calls) ==
            [approved  |-> Append(g.approved, action),
             decisions |-> Append(g.decisions,
                                  [action |-> type, approved |-> TRUE, reason |-> ""]),
             last      |-> last,
             calls     |-> calls]
    IN  IF type \in {"CLOSE_INCIDENT", "CANCEL_ESCALATION"}
          THEN accept(g.last, g.calls)
        ELSE IF type \in ContactClass
                /\ in_cooldown(t, last_contact_of(g.last, camera_id), cooldown)
          THEN reject("Contact cooldown")
        ELSE IF type = "START_VOICE_CALL_PRIMARY" /\ ~voice_enabled
          THEN reject("Voice disabled for this camera")
        ELSE IF type = "START_VOICE_CALL_PRIMARY"
                /\ call_cap_reached(call_count_of(g.calls, camera_id), max_calls)
          THEN reject("Max primary call attempts reached")
        ELSE IF type = "SEND_SMS_PRIMARY" /\ ~sms_enabled
          THEN reject("SMS disabled for this camera")
        ELSE IF type = "ESCALATE_TO_BACKUP" /\ acknowledged
          THEN reject("Already acknowledged")
        ELSE IF type = "ESCALATE_TO_BACKUP" /\ escalation_stage >= max_stage
          THEN reject("Max escalation stage reached")
        ELSE accept(
               IF type \in ContactClass \cup {"ESCALATE_TO_BACKUP"}
                 THEN put(g.last, camera_id, t) ELSE g.last,
               IF type = "START_VOICE_CALL_PRIMARY"
                 THEN put(g.calls, camera_id, call_count_of(g.calls, camera_id) + 1)
                 ELSE g.calls)

RECURSIVE guard_loop(_, _, _, _, _, _, _, _, _, _, _)
guard_loop(g, actions, camera_id, t, acknowledged, voice_enabled, sms_enabled, escalation_stage, cooldown, max_calls, max_stage) ==
    IF actions = <<>> THEN g
    ELSE guard_loop(
           guard_step(g, Head(actions), camera_id, t, acknowledged, voice_enabled,
                      sms_enabled, escalation_stage, cooldown, max_calls, max_stage),
           Tail(actions), camera_id, t, acknowledged, voice_enabled, sms_enabled,
           escalation_stage, cooldown, max_calls, max_stage)

RECURSIVE reverse(_)
reverse(seq) == IF seq = <<>> THEN <<>> ELSE Append(reverse(Tail(seq)), Head(seq))

\* approve_plan going through the proposed actions from the last to the first
approve_plan_mut(actions, camera_id, t, last, calls, acknowledged, voice_enabled, sms_enabled, escalation_stage) ==
    guard_loop([approved |-> <<>>, decisions |-> <<>>, last |-> last, calls |-> calls],
               reverse(actions), camera_id, t, acknowledged, voice_enabled, sms_enabled,
               escalation_stage, cooldown_contact_s, max_primary_call_attempts,
               max_escalation_stage)

\* approve_plan as every caller invokes it: cooldown_contact_s,
\* max_primary_call_attempts and max_escalation_stage keep their defaults
approve_plan(actions, camera_id, t, last, calls, acknowledged, voice_enabled, sms_enabled, escalation_stage) ==
    guard_loop([approved |-> <<>>, decisions |-> <<>>, last |-> last, calls |-> calls],
               actions, camera_id, t, acknowledged, voice_enabled, sms_enabled,
               escalation_stage, cooldown_contact_s, max_primary_call_attempts,
               max_escalation_stage)

(* ----------------------------- planner -------------------------------- *)
\* motion_energy and confidence are carried as hundredths
Plan(verdict, severity_seed, confidence, actions, replan_interval_s) ==
    [verdict |-> verdict, severity_seed |-> severity_seed,
     confidence |-> confidence, actions |-> actions,
     replan_interval_s |-> replan_interval_s]

\* _fallback_plan's seed with motion_energy 0.8 itself counted as high
fallback_seed_mut(motion_energy) == IF motion_energy >= 80 THEN 4 ELSE 3

fallback_seed(motion_energy) == IF motion_energy > 80 THEN 4 ELSE 3

_fallback_plan(motion_energy, voice_enabled) ==
    LET sev == fallback_seed(motion_energy)
    IN  Plan("POSSIBLE_FALL", sev, 30,
             <<PlanAction("SEND_SMS_PRIMARY", 0)>> \o
             (IF voice_enabled /\ sev >= 4
                THEN <<PlanAction("START_VOICE_CALL_PRIMARY", 1)>> ELSE <<>>),
             5)

needs_strong_verify(plan) ==
    \/ plan.verdict = "POSSIBLE_FALL" /\ plan.confidence < 60
    \/ plan.severity_seed >= 4 /\ plan.confidence < 70

\* PlannerPlan.replan_interval_s when the planner's answer names none
default_replan_interval_s == 10

\* plans the external planner is taken to answer with (its output is free)
PlannerPlans ==
    {Plan("CONFIRMED_FALL", 4, 90, <<PlanAction("SEND_SMS_PRIMARY", 0),
                                     PlanAction("START_VOICE_CALL_PRIMARY", 1)>>, default_replan_interval_s),
     Plan("NO_INCIDENT", 1, 90, <<PlanAction("CLOSE_INCIDENT", 0)>>, default_replan_interval_s)}

\* motion_energy values of the telemetry packets, around the 0.8 of
\* _fallback_plan
Motions == {20, 80, 81, 90}

\* what handle_incident plans with: a parsed answer, or after two parse
\* failures the fallback plan
first_plans(motion_energy, voice_enabled) ==
    PlannerPlans \cup {_fallback_plan(motion_energy, voice_enabled)}

\* what a replan tick plans with: a parsed answer or _fallback_plan(0.3, ...)
replan_plans(voice_enabled) ==
    PlannerPlans \cup {_fallback_plan(30, voice_enabled)}

(* ----------------------------- severity ------------------------------- *)
Max(a, b) == IF a >= b THEN a ELSE b
Min(a, b) == IF a <= b THEN a ELSE b

\* compute_severity with the time steps added to the seed and no clamp
compute_severity_mut(severity_seed, time_down_s, stillness_score, motion_energy, acknowledged) ==
    IF time_down_s > 15 THEN severity_seed + 2 ELSE severity_seed

\* stillness_score and motion_energy in hundredths
compute_severity(severity_seed, time_down_s, stillness_score, motion_energy, acknowledged) ==
    LET s1 == IF time_down_s > 120 THEN Max(severity_seed, 5)
              ELSE IF time_down_s > 45 THEN Max(severity_seed, 4)
              ELSE IF time_down_s > 15 THEN Max(severity_seed, 3)
              ELSE severity_seed
        s2 == IF stillness_score > 90 /\ time_down_s > 30 THEN Min(s1 + 1, 5) ELSE s1
        s3 == IF motion_energy > 50 /\ stillness_score < 30 THEN Max(s2 - 1, 1) ELSE s2
        s4 == IF acknowledged THEN Max(s3 - 1, 1) ELSE s3
    IN  Max(1, Min(5, s4))

(* ------------------------------ state --------------------------------- *)
VARIABLES
    now,                  \* time.time()
    budget,               \* limits of the run: plan rows up to which triggers are
                          \* handled, plan rows, requests served, seconds ticked
    last_contact_time,    \* guard._last_contact_time
    primary_call_counts,  \* guard._primary_call_counts
    guard_history,        \* decisions returned by approve_plan and resets, in order
    cameras,              \* cameras table
    incidents,            \* incidents table; the row index is the incident id
    plans,                \* incident_plans table in insertion order
    timeline,             \* incident_timeline rows per incident, insertion order
    sent,                 \* calls made to the SMS / voice gateway, per camera
    approved_count,       \* actions the guard approved, per camera and type
    active_replan_tasks,  \* planner._active_replan_tasks (its keys)
    replan,               \* the replan task of each incident
    ticker,               \* the severity ticker tasks of each incident
    strong,               \* the strong-verify task of each incident
    hi,                   \* a handle_incident call in flight
    vis,                  \* a vision callback (_on_fall / _on_edge) in flight
    up,                   \* a video upload (_create_immediate_incidents) in flight
    requests,             \* REST / webhook requests served so far
    action_log,           \* action_logs table in insertion order
    write_queue,          \* logging._write_queue
    sf_writes,            \* calls of snowflake_client.write_timeline_event, in order
    clients,              \* websocket._clients
    sockets,              \* position of each websocket_endpoint connection
    bc,                   \* the broadcast of a log_event call in flight
    risk_score,           \* cameras table: risk_score in hundredths
    config_updates,       \* config_updates table in insertion order
    cfg,                  \* an apply_config_suggestions run in flight
    config,               \* cameras table: the config keys besides escalation_delay_s
    errors,               \* the error results handle_incident returned, in order
    live_replan,          \* replan tasks that are neither cancelled nor finished, per incident
    loop_errors,          \* exceptions caught by the replan loops and severity tickers, in order
    policies              \* notification_policies table: the guard limits of each camera

vars == <<now, budget, policies, loop_errors, live_replan, errors, config, cfg, config_updates, risk_score, bc, sockets, clients, sf_writes, write_queue, action_log, last_contact_time, primary_call_counts, guard_history, cameras,
          incidents, plans, timeline, sent, approved_count, active_replan_tasks,
          replan, ticker, strong, hi, vis, up, requests>>

IncidentIds == 1..MaxIncidents
Sockets == 1..MaxSockets

\* incident_id "system" of the timeline rows that belong to no incident
SystemId == 0
TimelineIds == IncidentIds \cup {SystemId}

\* no config suggestion being applied
NoConfig == [pc |-> "idle", camera_id |-> "", patch |-> [k \in {} |-> 0]]

\* default of Camera.config without escalation_delay_s; fractions in
\* hundredths
default_config == [motion_spike_threshold |-> 70, stillness_threshold |-> 80, risk_threshold_low |-> 30, risk_threshold_high |-> 70, check_interval_s |-> 30]

\* no fan-out in progress
NoBroadcast == [pc |-> "idle", event |-> 0, size |-> 0, start |-> {}, cur |-> 0, visited |-> {}, delivered |-> {}, disconnected |-> {}]
Channels == {"sms_primary", "voice_primary", "sms_backup", "voice_backup"}

\* config["escalation_delay_s"] of the camera: the free-form config mapping
\* of the camera row is set to escalate as soon as the person is down
escalation_delay_s == 0

\* config.get("escalation_delay_s", 60) of a camera whose config has no delay
default_escalation_delay_s == 60

\* Camera(...) with the given voice_enabled and sms_enabled columns and
\* config["escalation_delay_s"]
Camera(voice_enabled, sms_enabled, delay) == [voice_enabled |-> voice_enabled, sms_enabled |-> sms_enabled, escalation_delay_s |-> delay]

\* Incident(...) with the column defaults of store/models.py
Incident(camera_id, verdict, severity, plan_version) ==
    [camera_id |-> camera_id, status |-> "ACTIVE", verdict |-> verdict,
     severity_seed |-> severity, severity_current |-> severity,
     time_down_s |-> 0, acknowledged |-> FALSE, ack_by |-> "",
     escalation_stage |-> 0, plan_version |-> plan_version]

\* select(Incident).where(camera_id == c, status == "ACTIVE")
active_incidents(camera_id) ==
    {i \in DOMAIN incidents : incidents[i].camera_id = camera_id
                              /\ incidents[i].status = "ACTIVE"}

\* timeline_log.log_event: append to the incident's timeline
log_event(tl, incident_id, kind) == [tl EXCEPT ![incident_id] = Append(@, kind)]

RECURSIVE log_events(_, _, _)
log_events(tl, incident_id, kinds) ==
    IF kinds = <<>> THEN tl
    ELSE log_events(log_event(tl, incident_id, Head(kinds)), incident_id, Tail(kinds))

NoTask == [pc |-> "none", ack |-> FALSE, stage |-> 0, time_down |-> 0, v |-> 0,
           todo |-> <<>>, interval_s |-> 0, replan_interval_s |-> 0]
NoTicker == [n |-> 0, pc |-> "sleep", seed |-> 0, time_down |-> 0, ack |-> FALSE,
             old |-> 0]
NoStrong == [pc |-> "none", v |-> 0]
NoPlan == Plan("", 0, 0, <<>>, 0)
Idle == [pc |-> "idle", inc |-> 0, ack |-> FALSE, stage |-> 0, v |-> 0,
         plan |-> NoPlan, motion |-> 0, calls |-> <<>>, decisions |-> <<>>,
         todo |-> <<>>]
UpIdle == [pc |-> "idle", inc |-> 0, v |-> 0, todo |-> <<>>, severity |-> 0,
           pending |-> <<>>]

\* limits of one run of the model
Budget(max_triggers, max_plans, max_requests, max_time_down, max_failures) == [triggers |-> max_triggers, plans |-> max_plans, requests |-> max_requests, time_down |-> max_time_down, failures |-> max_failures]

\* NotificationPolicy(...) with the given guard limits
NotificationPolicy(cooldown, max_calls) == [cooldown_contact_s |-> cooldown, max_primary_call_attempts |-> max_calls]

\* the column defaults of a NotificationPolicy row
default_policy == NotificationPolicy(5, 2)

\* the state after construction: empty tables, no task running
StartPolicy(camera, b, policy) ==
    /\ now = StartClock
    /\ budget = b
    /\ policies = [c \in CameraIds |-> policy]
    /\ loop_errors = <<>>
    /\ live_replan = [i \in IncidentIds |-> 0]
    /\ errors = <<>>
    /\ config = [c \in CameraIds |-> default_config]
    /\ cfg = NoConfig
    /\ config_updates = <<>>
    /\ risk_score = [c \in CameraIds |-> 0]
    /\ bc = NoBroadcast
    /\ sockets = [ws \in Sockets |-> "new"]
    /\ clients = {}
    /\ sf_writes = <<>>
    /\ write_queue = <<>>
    /\ action_log = <<>>
    /\ last_contact_time = <<>>
    /\ primary_call_counts = <<>>
    /\ guard_history = <<>>
    /\ cameras = [c \in CameraIds |-> camera]
    /\ incidents = <<>>
    /\ plans = <<>>
    /\ timeline = [i \in TimelineIds |-> <<>>]
    /\ sent = [c \in CameraIds |-> [ch \in Channels |-> 0]]
    /\ approved_count = [c \in CameraIds |-> [a \in ActionTypes |-> 0]]
    /\ active_replan_tasks = {}
    /\ replan = [i \in IncidentIds |-> NoTask]
    /\ ticker = [i \in IncidentIds |-> NoTicker]
    /\ strong = [i \in IncidentIds |-> NoStrong]
    /\ hi = Idle
    /\ vis = [pc |-> "idle", kind |-> ""]
    /\ up = UpIdle
    /\ requests = 0

\* the state after construction with the policy rows POST /cameras inserts
Start(camera, b) == StartPolicy(camera, b, default_policy)

Init == Start(Camera(TRUE, TRUE, escalation_delay_s), Budget(MaxPlans, MaxPlans, MaxRequests, MaxTimeDown, 0))

(* ------------------- the guard under arbitrary callers ----------------- *)
\* action lists handed to approve_plan by its callers (first plan, replan
\* tick, time-based escalation, prevention, video upload)
GuardPlans ==
    {<<PlanAction(a, 0)>> : a \in {"SEND_SMS_PRIMARY", "START_VOICE_CALL_PRIMARY",
                                  "SEND_LOW_PRIORITY_HEADSUP", "ESCALATE_TO_BACKUP"}}
    \cup {<<PlanAction("SEND_SMS_PRIMARY", 0), PlanAction("START_VOICE_CALL_PRIMARY", 1)>>,
          <<PlanAction("SEND_SMS_PRIMARY", 0), PlanAction("SEND_SMS_PRIMARY", 0)>>,
          <<PlanAction("CANCEL_ESCALATION", 0), PlanAction("SEND_SMS_PRIMARY", 0),
            PlanAction("CLOSE_INCIDENT", 0)>>}

\* what the callers pass for the camera and the incident
GuardContext(acknowledged, voice_enabled, sms_enabled, escalation_stage) ==
    [acknowledged |-> acknowledged, voice_enabled |-> voice_enabled,
     sms_enabled |-> sms_enabled, escalation_stage |-> escalation_stage]
GuardContexts ==
    {GuardContext(FALSE, TRUE, TRUE, 0), GuardContext(FALSE, FALSE, TRUE, 0),
     GuardContext(FALSE, TRUE, FALSE, 0), GuardContext(TRUE, TRUE, TRUE, 0),
     GuardContext(FALSE, TRUE, TRUE, max_escalation_stage)}

\* instants at which the guard is evaluated: each multiple of the cooldown
\* and the second before it
TimePoints == {t \in StartClock..MaxClock :
                 t % cooldown_contact_s \in {0, cooldown_contact_s - 1}}

RECURSIVE stamp(_, _, _)
stamp(decisions, camera_id, t) ==
    IF decisions = <<>> THEN <<>>
    ELSE <<[camera_id |-> camera_id, action |-> Head(decisions).action,
            approved |-> Head(decisions).approved,
            reason |-> Head(decisions).reason, t |-> t]>>
         \o stamp(Tail(decisions), camera_id, t)

\* time.time() moves on between two guard evaluations
Tick ==
    /\ \E t \in TimePoints : t > now /\ now' = t
    /\ UNCHANGED <<budget, policies, loop_errors, live_replan, errors, config, cfg, config_updates, risk_score, bc, sockets, clients, sf_writes, write_queue, action_log, last_contact_time, primary_call_counts, guard_history, cameras,
                   incidents, plans, timeline, sent, approved_count,
                   active_replan_tasks, replan, ticker, strong, hi, vis, up, requests>>

\* one approve_plan call
GuardApprove(actions, camera_id, acknowledged, voice_enabled, sms_enabled, escalation_stage) ==
    LET g == approve_plan(actions, camera_id, now, last_contact_time,
                          primary_call_counts, acknowledged, voice_enabled,
                          sms_enabled, escalation_stage)
    IN  /\ Len(guard_history) < MaxHistory
        /\ last_contact_time' = g.last
        /\ primary_call_counts' = g.calls
        /\ guard_history' = guard_history \o stamp(g.decisions, camera_id, now)
        /\ UNCHANGED <<now, budget, policies, loop_errors, live_replan, errors, config, cfg, config_updates, risk_score, bc, sockets, clients, sf_writes, write_queue, action_log, cameras, incidents, plans, timeline, sent, approved_count,
                       active_replan_tasks, replan, ticker, strong, hi, vis, up,
                       requests>>

reset_camera_state(map, camera_id) == pop(map, camera_id)

\* one reset_camera_state call (ACK, false alarm)
GuardReset(camera_id) ==
    /\ Len(guard_history) < MaxHistory
    /\ last_contact_time' = reset_camera_state(last_contact_time, camera_id)
    /\ primary_call_counts' = reset_camera_state(primary_call_counts, camera_id)
    /\ guard_history' = Append(guard_history,
                               [camera_id |-> camera_id, action |-> "RESET",
                                approved |-> FALSE, reason |-> "", t |-> now])
    /\ UNCHANGED <<now, budget, policies, loop_errors, live_replan, errors, config, cfg, config_updates, risk_score, bc, sockets, clients, sf_writes, write_queue, action_log, cameras, incidents, plans, timeline, sent, approved_count,
                   active_replan_tasks, replan, ticker, strong, hi, vis, up,
                   requests>>

GuardNext ==
    \/ Tick
    \/ \E actions \in GuardPlans, c \in CameraIds, x \in GuardContexts :
            GuardApprove(actions, c, x.acknowledged, x.voice_enabled, x.sms_enabled,
                         x.escalation_stage)
    \/ \E c \in CameraIds : GuardReset(c)

SpecGuard == Init /\ [][GuardNext]_vars

\* policy rows of a camera: the defaults, and a longer cooldown with a
\* single primary call
Policies == {default_policy, NotificationPolicy(10, 1)}

\* the guard under arbitrary callers for a camera with any of the policies
InitPolicy == \E policy \in Policies : StartPolicy(Camera(TRUE, TRUE, escalation_delay_s), Budget(MaxPlans, MaxPlans, MaxRequests, MaxTimeDown, 0), policy)

SpecPolicy == InitPolicy /\ [][GuardNext]_vars

(* ------------------------------ executor ------------------------------ *)
\* _run_action: the CLOSE_INCIDENT branch marks the row CLOSED when it exists
incidents_after(incs, action, incident_id) ==
    IF action.type = "CLOSE_INCIDENT" /\ incident_id \in DOMAIN incs
      THEN [incs EXCEPT ![incident_id].status = "CLOSED"]
      ELSE incs

\* _run_action: the gateway calls of each action type
sent_after(s, action, camera_id) ==
    LET type == action.type
    IN  IF type \in {"SEND_SMS_PRIMARY", "SEND_LOW_PRIORITY_HEADSUP"}
          THEN [s EXCEPT ![camera_id]["sms_primary"] = @ + 1]
        ELSE IF type = "START_VOICE_CALL_PRIMARY"
          THEN [s EXCEPT ![camera_id]["voice_primary"] = @ + 1]
        ELSE IF type = "ESCALATE_TO_BACKUP"
          THEN [s EXCEPT ![camera_id]["sms_backup"] = @ + 1,
                         ![camera_id]["voice_backup"] = @ + 1]
        ELSE s

\* what twilio_client.send_sms / start_voice_call return: the SID, or None
\* when the gateway call raised
Sids == {"SID", "None"}

\* _run_action: the result string of each action type, as the parts that
\* are joined; sms and call are what the gateway calls returned
run_action(type, sms, call) ==
    IF type = "SEND_SMS_PRIMARY" THEN <<"SMS sent", sms>>
    ELSE IF type = "SEND_LOW_PRIORITY_HEADSUP" THEN <<"Heads-up SMS sent", sms>>
    ELSE IF type = "START_VOICE_CALL_PRIMARY" THEN <<"Voice call started", call>>
    ELSE IF type = "ESCALATE_TO_BACKUP" THEN <<"Escalated to backup", sms, call>>
    ELSE IF type = "CANCEL_ESCALATION" THEN <<"Escalation cancelled">>
    ELSE IF type = "CLOSE_INCIDENT" THEN <<"Incident closed">>
    ELSE IF type = "INCREASE_CHECK_RATE" THEN <<"Check rate increased">>
    ELSE <<"Strong verification requested">>

\* ActionLog(...)
ActionLog(incident_id, action_type, result) ==
    [incident_id |-> incident_id, action_type |-> action_type, result |-> result]

\* gateway calls of the run that returned None
failed_calls ==
    Cardinality({k \in DOMAIN action_log :
                   \E j \in DOMAIN action_log[k].result : action_log[k].result[j] = "None"})

\* one iteration of the for loop of execute_actions (after the delay_s
\* sleep): _run_action, the ActionLog row, ACTION_EXECUTED
execute_action(action, incident_id, camera_id) ==
    /\ incidents' = incidents_after(incidents, action, incident_id)
    /\ sent' = sent_after(sent, action, camera_id)
    /\ \E sms \in Sids, call \in Sids :
          /\ "None" \in {sms, call} => failed_calls < budget.failures
          /\ action_log' = Append(action_log,
                                  ActionLog(incident_id, action.type,
                                            run_action(action.type, sms, call)))
    /\ timeline' = log_event(timeline, incident_id, "ACTION_EXECUTED")

\* approve_plan against the current guard maps and the camera's capabilities
guard_call(actions, camera_id, last, calls, acknowledged, escalation_stage) ==
    approve_plan(actions, camera_id, now, last, calls, acknowledged,
                 cameras[camera_id].voice_enabled, cameras[camera_id].sms_enabled,
                 escalation_stage)

RECURSIVE tally(_, _)
tally(counts, approved) ==
    IF approved = <<>> THEN counts
    ELSE tally([counts EXCEPT ![Head(approved).type] = @ + 1], Tail(approved))

\* the guard maps and the approval record after an approve_plan call
guard_commit(g, camera_id, approved) ==
    /\ last_contact_time' = g.last
    /\ primary_call_counts' = g.calls
    /\ approved_count' = [approved_count EXCEPT ![camera_id] = tally(@, approved)]

\* the replan task in asyncio.sleep(interval_s)
Sleeping(interval_s) == [NoTask EXCEPT !.pc = "sleep", !.interval_s = interval_s]

\* cancel_replan that pops the registry entry and leaves the task running
cancel_replan_mut(incident_id) ==
    /\ active_replan_tasks' = active_replan_tasks \ {incident_id}
    /\ replan' = replan
    /\ live_replan' = live_replan

\* planner.cancel_replan: the popped task, when there is one, is cancelled
\* (a cancel of a task that has finished does nothing)
cancel_replan(incident_id) ==
    /\ active_replan_tasks' = active_replan_tasks \ {incident_id}
    /\ replan' = IF incident_id \in active_replan_tasks
                   THEN [replan EXCEPT ![incident_id] = NoTask] ELSE replan
    /\ live_replan' = IF incident_id \in active_replan_tasks /\ replan[incident_id].pc # "none"
                        THEN [live_replan EXCEPT ![incident_id] = @ - 1] ELSE live_replan

reset_guard(camera_id) ==
    /\ last_contact_time' = reset_camera_state(last_contact_time, camera_id)
    /\ primary_call_counts' = reset_camera_state(primary_call_counts, camera_id)

(* -------------------------- REST and webhooks -------------------------- *)
\* POST /api/incidents/{id}/ack
acknowledge_incident(i) ==
    /\ requests < budget.requests
    /\ i \in DOMAIN incidents
    /\ incidents' = [incidents EXCEPT ![i].acknowledged = TRUE,
                                      ![i].ack_by = "caregiver",
                                      ![i].status = "ACKED"]
    /\ cancel_replan(i)
    /\ reset_guard(incidents[i].camera_id)
    /\ timeline' = log_event(timeline, i, "ACK_RECEIVED")
    /\ requests' = requests + 1
    /\ UNCHANGED <<now, budget, policies, loop_errors, errors, config, cfg, config_updates, risk_score, bc, sockets, clients, sf_writes, write_queue, action_log, guard_history, cameras, plans, sent, approved_count, ticker,
                   strong, hi, vis, up>>

\* POST /api/incidents/{id}/false_alarm
false_alarm(i) ==
    /\ requests < budget.requests
    /\ i \in DOMAIN incidents
    /\ incidents' = [incidents EXCEPT ![i].status = "CLOSED",
                                      ![i].verdict = "FALSE_ALARM",
                                      ![i].acknowledged = TRUE]
    /\ cancel_replan(i)
    /\ reset_guard(incidents[i].camera_id)
    /\ timeline' = log_event(timeline, i, "CLOSED")
    /\ requests' = requests + 1
    /\ UNCHANGED <<now, budget, policies, loop_errors, errors, config, cfg, config_updates, risk_score, bc, sockets, clients, sf_writes, write_queue, action_log, guard_history, cameras, plans, sent, approved_count, ticker,
                   strong, hi, vis, up>>

\* POST /twilio/dtmf/{id}
dtmf_webhook(i, digit) ==
    /\ requests < budget.requests
    /\ i \in DOMAIN incidents
    /\ requests' = requests + 1
    /\ UNCHANGED <<now, budget, policies, loop_errors, errors, config, cfg, config_updates, risk_score, bc, sockets, clients, sf_writes, write_queue, action_log, guard_history, cameras, plans, sent, approved_count, ticker,
                   strong, hi, vis, up>>
    /\ CASE digit = "1" ->
              /\ incidents' = [incidents EXCEPT ![i].acknowledged = TRUE,
                                                ![i].ack_by = "voice_dtmf",
                                                ![i].status = "ACKED"]
              /\ cancel_replan(i)
              /\ reset_guard(incidents[i].camera_id)
              /\ timeline' = log_event(timeline, i, "ACK_RECEIVED")
         [] digit = "2" ->
              /\ incidents' = [incidents EXCEPT ![i].acknowledged = TRUE,
                                                ![i].ack_by = "voice_dtmf_will_call",
                                                ![i].status = "ACKED"]
              /\ cancel_replan(i)
              /\ UNCHANGED <<last_contact_time, primary_call_counts>>
              /\ timeline' = log_event(timeline, i, "ACK_RECEIVED")
         [] digit = "3" ->
              /\ incidents' = [incidents EXCEPT ![i].escalation_stage =
                                                    Min(@ + 1, 2)]
              /\ UNCHANGED <<active_replan_tasks, replan, live_replan, last_contact_time,
                             primary_call_counts>>
              /\ timeline' = log_event(timeline, i, "ESCALATION")
         [] digit = "4" ->
              /\ incidents' = [incidents EXCEPT ![i].status = "CLOSED",
                                                ![i].verdict = "FALSE_ALARM",
                                                ![i].acknowledged = TRUE]
              /\ cancel_replan(i)
              /\ reset_guard(incidents[i].camera_id)
              /\ timeline' = log_event(timeline, i, "CLOSED")

(* --------------------------- vision callbacks -------------------------- *)
\* _on_fall / _on_edge up to the dedup select: with an ACTIVE incident the
\* callback returns, with several the select raises; it goes on to insert
\* only when it found none
vision_lookup(kind, c) ==
    /\ vis.pc = "idle"
    /\ Len(incidents) < MaxIncidents
    /\ active_incidents(c) = {}
    /\ vis' = [pc |-> "insert", kind |-> kind]
    /\ UNCHANGED <<now, budget, policies, loop_errors, live_replan, errors, config, cfg, config_updates, risk_score, bc, sockets, clients, sf_writes, write_queue, action_log, last_contact_time, primary_call_counts, guard_history,
                   cameras, incidents, plans, timeline, sent, approved_count,
                   active_replan_tasks, replan, ticker, strong, hi, up, requests>>

\* _on_fall / _on_edge from the insert on: commit the row, TRIGGER_RECEIVED,
\* then the alert SMS straight to the gateway when a primary contact is set
vision_insert(c, has_primary) ==
    /\ vis.pc = "insert"
    /\ Len(incidents) < MaxIncidents
    /\ incidents' = Append(incidents,
                           IF vis.kind = "fall"
                             THEN Incident(c, "CONFIRMED_FALL", 4, 1)
                             ELSE Incident(c, "POSSIBLE_FALL", 3, 1))
    /\ timeline' = log_event(timeline, Len(incidents) + 1, "TRIGGER_RECEIVED")
    /\ sent' = IF has_primary THEN [sent EXCEPT ![c]["sms_primary"] = @ + 1] ELSE sent
    /\ vis' = [pc |-> "idle", kind |-> ""]
    /\ UNCHANGED <<now, budget, policies, loop_errors, live_replan, errors, config, cfg, config_updates, risk_score, bc, sockets, clients, sf_writes, write_queue, action_log, last_contact_time, primary_call_counts, guard_history,
                   cameras, plans, approved_count, active_replan_tasks, replan,
                   ticker, strong, hi, up, requests>>

(* --------------------------- handle_incident --------------------------- *)
\* select the camera and its ACTIVE incident (scalar_one_or_none raises on
\* several rows); an existing incident is adopted and TRIGGER_RECEIVED logged
hi_lookup(c, motion_energy) ==
    /\ hi.pc = "idle"
    /\ Len(plans) < budget.triggers
    /\ Cardinality(active_incidents(c)) <= 1
    /\ IF active_incidents(c) = {}
         THEN /\ Len(incidents) < MaxIncidents
              /\ hi' = [Idle EXCEPT !.pc = "insert", !.motion = motion_energy]
              /\ UNCHANGED timeline
         ELSE LET i == CHOOSE j \in active_incidents(c) : TRUE
              IN  /\ hi' = [Idle EXCEPT !.pc = "plan", !.inc = i,
                                        !.motion = motion_energy,
                                        !.ack = incidents[i].acknowledged,
                                        !.stage = incidents[i].escalation_stage]
                  /\ timeline' = log_event(timeline, i, "TRIGGER_RECEIVED")
    /\ UNCHANGED <<now, budget, policies, loop_errors, live_replan, errors, config, cfg, config_updates, risk_score, bc, sockets, clients, sf_writes, write_queue, action_log, last_contact_time, primary_call_counts, guard_history,
                   cameras, incidents, plans, sent, approved_count,
                   active_replan_tasks, replan, ticker, strong, vis, up, requests>>

\* no ACTIVE incident was found: insert one, then TRIGGER_RECEIVED
hi_insert(c) ==
    /\ hi.pc = "insert"
    /\ Len(incidents) < MaxIncidents
    /\ incidents' = Append(incidents, Incident(c, "POSSIBLE_FALL", 3, 0))
    /\ timeline' = log_event(timeline, Len(incidents) + 1, "TRIGGER_RECEIVED")
    /\ hi' = [hi EXCEPT !.pc = "plan", !.inc = Len(incidents) + 1]
    /\ UNCHANGED <<now, budget, policies, loop_errors, live_replan, errors, config, cfg, config_updates, risk_score, bc, sockets, clients, sf_writes, write_queue, action_log, last_contact_time, primary_call_counts, guard_history,
                   cameras, plans, sent, approved_count, active_replan_tasks, replan,
                   ticker, strong, vis, up, requests>>

\* frames handed to the planner: frames_jpeg_base64[:4] on the first call,
\* frames_jpeg_base64[:2] on the retry
first_frames == 4
retry_frames == 2

\* how one call of gemini_client.incident_plan ends: text that parses into a
\* PlannerPlan, text that does not, or an exception (HTTP error, 30 s timeout,
\* no candidates)
Answers == {"plan", "unparseable", "error"}

\* the planner section: the first call returned; its text parsed, or one
\* retry with fewer frames was made, whose failure of either kind leaves the
\* fallback plan for the packet's motion_energy, which is not read again;
\* the incident row is selected again for the plan_version update
hi_plan(c) ==
    /\ hi.pc = "plan"
    /\ \E first \in Answers \ {"error"}, second \in Answers :
          \E plan \in first_plans(hi.motion, cameras[c].voice_enabled) :
             /\ (plan \in PlannerPlans) <=> (first = "plan" \/ second = "plan")
             /\ hi' = [hi EXCEPT !.pc = "commit", !.plan = plan,
                                 !.calls = IF first = "plan" THEN <<first_frames>>
                                           ELSE <<first_frames, retry_frames>>,
                                 !.motion = 0,
                                 !.v = incidents[hi.inc].plan_version]
    /\ UNCHANGED <<now, budget, policies, loop_errors, live_replan, errors, config, cfg, config_updates, risk_score, bc, sockets, clients, sf_writes, write_queue, action_log, last_contact_time, primary_call_counts, guard_history,
                   cameras, incidents, plans, timeline, sent, approved_count,
                   active_replan_tasks, replan, ticker, strong, vis, up, requests>>

\* the first call raised: nothing catches it, handle_incident ends with the
\* exception and the request fails
hi_planner_error(c) ==
    /\ hi.pc = "plan"
    /\ Len(timeline[hi.inc]) <= MaxFailures
    /\ hi' = Idle
    /\ UNCHANGED <<now, budget, policies, loop_errors, live_replan, errors, config, cfg, config_updates, risk_score, bc, sockets, clients, sf_writes, write_queue, action_log, last_contact_time, primary_call_counts, guard_history,
                   cameras, incidents, plans, timeline, sent, approved_count,
                   active_replan_tasks, replan, ticker, strong, vis, up, requests>>

\* commit plan_version + 1 and the plan's verdict and severity, persist the
\* IncidentPlan, PLAN_CREATED, approve_plan, PLAN_APPROVED
hi_commit(c) ==
    /\ hi.pc = "commit"
    /\ LET i == hi.inc
           g == guard_call(hi.plan.actions, c, last_contact_time, primary_call_counts,
                           hi.ack, hi.stage)
       IN  /\ incidents' = [incidents EXCEPT
                              ![i].plan_version = hi.v + 1,
                              ![i].severity_seed = hi.plan.severity_seed,
                              ![i].severity_current = hi.plan.severity_seed,
                              ![i].verdict = hi.plan.verdict]
           /\ plans' = Append(plans, [incident_id |-> i, version |-> hi.v + 1,
                                      model_used |-> "fast",
                                      replan_interval_s |-> hi.plan.replan_interval_s])
           /\ timeline' = log_events(timeline, i, <<"PLAN_CREATED", "PLAN_APPROVED">>)
           /\ guard_commit(g, c, g.approved)
           /\ hi' = [hi EXCEPT !.pc = IF g.approved = <<>> THEN "finish" ELSE "exec",
                               !.calls = <<>>, !.decisions = g.decisions,
                               !.todo = g.approved]
    /\ UNCHANGED <<now, budget, policies, loop_errors, live_replan, errors, config, cfg, config_updates, risk_score, bc, sockets, clients, sf_writes, write_queue, action_log, guard_history, cameras, sent, active_replan_tasks, replan,
                   ticker, strong, vis, up, requests>>

\* execute_actions: the next approved action
hi_exec(c) ==
    /\ hi.pc = "exec"
    /\ execute_action(Head(hi.todo), hi.inc, c)
    /\ hi' = [hi EXCEPT !.pc = IF Tail(hi.todo) = <<>> THEN "finish" ELSE "exec",
                        !.todo = Tail(hi.todo)]
    /\ UNCHANGED <<now, budget, policies, loop_errors, live_replan, errors, config, cfg, config_updates, risk_score, bc, sockets, clients, sf_writes, write_queue, last_contact_time, primary_call_counts, guard_history,
                   cameras, plans, approved_count, active_replan_tasks, replan,
                   ticker, strong, vis, up, requests>>

\* after the execution: the strong-verify task when needed, the replan loop
\* (cancelling the registered one) and one more severity ticker
hi_finish(c) ==
    /\ hi.pc = "finish"
    /\ strong' = IF needs_strong_verify(hi.plan) /\ strong[hi.inc].pc = "none"
                   THEN [strong EXCEPT ![hi.inc] = [pc |-> "start", v |-> 0]]
                   ELSE strong
    /\ replan' = [replan EXCEPT ![hi.inc] = Sleeping(hi.plan.replan_interval_s)]
    /\ live_replan' = [live_replan EXCEPT ![hi.inc] =
                          IF hi.inc \in active_replan_tasks /\ replan[hi.inc].pc # "none"
                          THEN @ ELSE @ + 1]
    /\ active_replan_tasks' = active_replan_tasks \cup {hi.inc}
    /\ ticker' = [ticker EXCEPT ![hi.inc].n = @ + 1]
    /\ hi' = Idle
    /\ UNCHANGED <<now, budget, policies, loop_errors, errors, config, cfg, config_updates, risk_score, bc, sockets, clients, sf_writes, write_queue, action_log, last_contact_time, primary_call_counts, guard_history,
                   cameras, incidents, plans, timeline, sent, approved_count, vis,
                   up, requests>>

(* ---------------------------- strong verify ---------------------------- *)
\* the verdict of the strong model's plan
StrongVerdict == "CONFIRMED_FALL"

\* strong_verify answered: unparseable ends the task, otherwise the incident
\* row is selected for the plan_version update
strong_read(i, parsed) ==
    /\ strong[i].pc = "start"
    /\ parsed => Len(plans) < budget.plans
    /\ strong' = [strong EXCEPT ![i] =
                    IF parsed THEN [pc |-> "commit", v |-> incidents[i].plan_version]
                    ELSE NoStrong]
    /\ UNCHANGED <<now, budget, policies, loop_errors, live_replan, errors, config, cfg, config_updates, risk_score, bc, sockets, clients, sf_writes, write_queue, action_log, last_contact_time, primary_call_counts, guard_history,
                   cameras, incidents, plans, timeline, sent, approved_count,
                   active_replan_tasks, replan, ticker, hi, vis, up, requests>>

\* strong_commit that also places the strong plan's voice call
strong_commit_mut(i) ==
    /\ strong[i].pc = "commit"
    /\ incidents' = [incidents EXCEPT ![i].plan_version = strong[i].v + 1,
                                      ![i].verdict = StrongVerdict]
    /\ plans' = Append(plans, [incident_id |-> i, version |-> strong[i].v + 1,
                               model_used |-> "strong", replan_interval_s |-> default_replan_interval_s])
    /\ timeline' = log_event(timeline, i, "PLAN_CREATED")
    /\ sent' = sent_after(sent, PlanAction("START_VOICE_CALL_PRIMARY", 0),
                          incidents[i].camera_id)
    /\ strong' = [strong EXCEPT ![i] = NoStrong]
    /\ UNCHANGED <<now, budget, policies, loop_errors, live_replan, errors, config, cfg, config_updates, risk_score, bc, sockets, clients, sf_writes, write_queue, action_log, last_contact_time, primary_call_counts, guard_history,
                   cameras, approved_count, active_replan_tasks, replan,
                   ticker, hi, vis, up, requests>>

\* commit plan_version + 1 and the verdict, persist the plan, PLAN_CREATED
strong_commit(i) ==
    /\ strong[i].pc = "commit"
    /\ incidents' = [incidents EXCEPT ![i].plan_version = strong[i].v + 1,
                                      ![i].verdict = StrongVerdict]
    /\ plans' = Append(plans, [incident_id |-> i, version |-> strong[i].v + 1,
                               model_used |-> "strong", replan_interval_s |-> default_replan_interval_s])
    /\ timeline' = log_event(timeline, i, "PLAN_CREATED")
    /\ strong' = [strong EXCEPT ![i] = NoStrong]
    /\ UNCHANGED <<now, budget, policies, loop_errors, live_replan, errors, config, cfg, config_updates, risk_score, bc, sockets, clients, sf_writes, write_queue, action_log, last_contact_time, primary_call_counts, guard_history,
                   cameras, sent, approved_count, active_replan_tasks, replan,
                   ticker, hi, vis, up, requests>>

(* ------------------------------ replan loop ---------------------------- *)

\* a tick begins: the incident and the camera are selected (the loop ends
\* when the incident is not ACTIVE), the planner answers or the fallback plan
\* stands in, and the incident row is selected again for the version update
replan_wake(i, c) ==
    /\ replan[i].pc = "sleep"
    /\ IF incidents[i].status # "ACTIVE"
         THEN /\ replan' = [replan EXCEPT ![i] = NoTask]
              /\ live_replan' = [live_replan EXCEPT ![i] = @ - 1]
         ELSE /\ Len(plans) < budget.plans
              /\ \E plan \in replan_plans(cameras[c].voice_enabled) :
                   replan' = [replan EXCEPT ![i] =
                                [pc |-> "commit",
                                 ack |-> incidents[i].acknowledged,
                                 stage |-> incidents[i].escalation_stage,
                                 time_down |-> incidents[i].time_down_s,
                                 v |-> incidents[i].plan_version,
                                 todo |-> plan.actions,
                                 interval_s |-> replan[i].interval_s,
                                 replan_interval_s |-> plan.replan_interval_s]]
              /\ live_replan' = live_replan
    /\ UNCHANGED <<now, budget, policies, loop_errors, errors, config, cfg, config_updates, risk_score, bc, sockets, clients, sf_writes, write_queue, action_log, last_contact_time, primary_call_counts, guard_history,
                   cameras, incidents, plans, timeline, sent, approved_count,
                   active_replan_tasks, ticker, strong, hi, vis, up, requests>>

\* the escalation test of the tick, on the incident as read when it began
escalation_due(acknowledged, time_down_s, escalation_stage, esc_delay) ==
    ~acknowledged /\ time_down_s > esc_delay /\ escalation_stage < 2

\* commit plan_version + 1, persist the plan, REPLAN, approve_plan for the
\* plan and, when escalation is due, for an ESCALATE_TO_BACKUP action
replan_commit(i, c) ==
    /\ replan[i].pc = "commit"
    /\ LET r  == replan[i]
           g  == guard_call(r.todo, c, last_contact_time, primary_call_counts,
                            r.ack, r.stage)
           due == escalation_due(r.ack, r.time_down, r.stage, cameras[c].escalation_delay_s)
           e  == guard_call(<<PlanAction("ESCALATE_TO_BACKUP", 0)>>, c, g.last,
                            g.calls, r.ack, r.stage)
           escalated == due /\ e.approved # <<>>
           approved == IF escalated THEN g.approved \o e.approved ELSE g.approved
       IN  /\ incidents' = [incidents EXCEPT ![i].plan_version = r.v + 1]
           /\ plans' = Append(plans, [incident_id |-> i, version |-> r.v + 1,
                                      model_used |-> "fast",
                                      replan_interval_s |-> r.replan_interval_s])
           /\ timeline' = log_event(timeline, i, "REPLAN")
           /\ guard_commit(IF due THEN e ELSE g, c, approved)
           /\ replan' = [replan EXCEPT ![i] =
                           IF escalated THEN [r EXCEPT !.pc = "escalate",
                                                       !.todo = approved]
                           ELSE IF approved = <<>> THEN Sleeping(r.interval_s)
                           ELSE [r EXCEPT !.pc = "exec", !.todo = approved]]
    /\ UNCHANGED <<now, budget, policies, loop_errors, live_replan, errors, config, cfg, config_updates, risk_score, bc, sockets, clients, sf_writes, write_queue, action_log, guard_history, cameras, sent, active_replan_tasks, ticker,
                   strong, hi, vis, up, requests>>

\* the escalation was approved: select the row again, escalation_stage += 1,
\* commit, ESCALATION
replan_escalate(i) ==
    /\ replan[i].pc = "escalate"
    /\ incidents' = [incidents EXCEPT ![i].escalation_stage = @ + 1]
    /\ timeline' = log_event(timeline, i, "ESCALATION")
    /\ replan' = [replan EXCEPT ![i].pc = "exec"]
    /\ UNCHANGED <<now, budget, policies, loop_errors, live_replan, errors, config, cfg, config_updates, risk_score, bc, sockets, clients, sf_writes, write_queue, action_log, last_contact_time, primary_call_counts, guard_history,
                   cameras, plans, sent, approved_count, active_replan_tasks, ticker,
                   strong, hi, vis, up, requests>>

\* execute_actions of the tick: the next approved action; after the last one
\* the loop sleeps again
replan_exec(i, c) ==
    /\ replan[i].pc = "exec"
    /\ execute_action(Head(replan[i].todo), i, c)
    /\ replan' = [replan EXCEPT ![i] =
                    IF Tail(replan[i].todo) = <<>> THEN Sleeping(replan[i].interval_s)
                    ELSE [replan[i] EXCEPT !.todo = Tail(replan[i].todo)]]
    /\ UNCHANGED <<now, budget, policies, loop_errors, live_replan, errors, config, cfg, config_updates, risk_score, bc, sockets, clients, sf_writes, write_queue, last_contact_time, primary_call_counts, guard_history,
                   cameras, plans, approved_count, active_replan_tasks, ticker,
                   strong, hi, vis, up, requests>>

(* ---------------------------- severity ticker -------------------------- *)
\* ticker_read without the status test of the loop
ticker_read_mut(i) ==
    /\ ticker[i].n > 0
    /\ ticker[i].pc = "sleep"
    /\ incidents[i].status = "ACTIVE"
    /\ incidents[i].time_down_s < budget.time_down
    /\ ticker' = [ticker EXCEPT ![i] =
                    [n |-> ticker[i].n, pc |-> "commit",
                     seed |-> incidents[i].severity_seed,
                     time_down |-> incidents[i].time_down_s,
                     ack |-> incidents[i].acknowledged,
                     old |-> incidents[i].severity_current]]
    /\ UNCHANGED <<now, budget, policies, loop_errors, live_replan, errors, config, cfg, config_updates, risk_score, bc, sockets, clients, sf_writes, write_queue, action_log, last_contact_time, primary_call_counts, guard_history,
                   cameras, incidents, plans, timeline, sent, approved_count,
                   active_replan_tasks, replan, strong, hi, vis, up, requests>>

\* a ticker wakes and selects the incident: it ends when the incident is not
\* ACTIVE, otherwise it holds the row it read
ticker_read(i) ==
    /\ ticker[i].n > 0
    /\ ticker[i].pc = "sleep"
    /\ IF incidents[i].status # "ACTIVE"
         THEN ticker' = [ticker EXCEPT ![i].n = @ - 1]
         ELSE /\ incidents[i].time_down_s < budget.time_down
              /\ ticker' = [ticker EXCEPT ![i] =
                              [n |-> ticker[i].n, pc |-> "commit",
                               seed |-> incidents[i].severity_seed,
                               time_down |-> incidents[i].time_down_s,
                               ack |-> incidents[i].acknowledged,
                               old |-> incidents[i].severity_current]]
    /\ UNCHANGED <<now, budget, policies, loop_errors, live_replan, errors, config, cfg, config_updates, risk_score, bc, sockets, clients, sf_writes, write_queue, action_log, last_contact_time, primary_call_counts, guard_history,
                   cameras, incidents, plans, timeline, sent, approved_count,
                   active_replan_tasks, replan, strong, hi, vis, up, requests>>

\* time_down_s += 1.0 and the recomputed severity are committed;
\* SEVERITY_TICK when the severity changed or on every fifth second
ticker_commit(i) ==
    /\ ticker[i].pc = "commit"
    /\ LET t == ticker[i].time_down + 1
           new_sev == compute_severity(ticker[i].seed, t, 70, 10, ticker[i].ack)
       IN  /\ incidents' = [incidents EXCEPT ![i].time_down_s = t,
                                             ![i].severity_current = new_sev]
           /\ timeline' = IF new_sev # ticker[i].old \/ t % 5 = 0
                            THEN log_event(timeline, i, "SEVERITY_TICK")
                            ELSE timeline
    /\ ticker' = [ticker EXCEPT ![i] = [NoTicker EXCEPT !.n = ticker[i].n]]
    /\ UNCHANGED <<now, budget, policies, loop_errors, live_replan, errors, config, cfg, config_updates, risk_score, bc, sockets, clients, sf_writes, write_queue, action_log, last_contact_time, primary_call_counts, guard_history,
                   cameras, plans, sent, approved_count, active_replan_tasks, replan,
                   strong, hi, vis, up, requests>>

(* ----------------------------- video upload ---------------------------- *)
\* _create_immediate_incidents(camera_id, 10)
upload_total == 10
high_count == Max(1, upload_total \div 10)
medium_count == upload_total - high_count

\* the actions _generate_plan_for_incident plans for a severity
upload_actions(severity) ==
    IF severity >= 4
      THEN <<PlanAction("SEND_SMS_PRIMARY", 0), PlanAction("START_VOICE_CALL_PRIMARY", 1)>>
      ELSE <<PlanAction("SEND_SMS_PRIMARY", 0), PlanAction("INCREASE_CHECK_RATE", 0)>>

RECURSIVE append_incidents(_, _, _)
append_incidents(incs, k, row) ==
    IF k = 0 THEN incs ELSE append_incidents(Append(incs, row), k - 1, row)

\* camera.risk_score = 1.0 is committed, the high-severity incident is
\* inserted without a dedup select,
\* TRIGGER_RECEIVED, and _generate_plan_for_incident selects the row
up_start(c) ==
    /\ up.pc = "idle"
    /\ Len(incidents) + high_count <= MaxIncidents
    /\ Len(plans) < budget.plans
    /\ risk_score' = [risk_score EXCEPT ![c] = 100]
    /\ incidents' = append_incidents(incidents, high_count,
                                     Incident(c, "CONFIRMED_FALL", 4, 0))
    /\ timeline' = log_event(timeline, Len(incidents) + 1, "TRIGGER_RECEIVED")
    /\ up' = [UpIdle EXCEPT !.pc = "commit", !.inc = Len(incidents) + 1, !.v = 0,
                            !.severity = 4]
    /\ UNCHANGED <<now, budget, policies, loop_errors, live_replan, errors, config, cfg, config_updates, bc, sockets, clients, sf_writes, write_queue, action_log, last_contact_time, primary_call_counts, guard_history,
                   cameras, plans, sent, approved_count, active_replan_tasks, replan,
                   ticker, strong, hi, vis, requests>>

\* _generate_plan_for_incident: commit plan_version + 1 with the plan,
\* PLAN_CREATED, approve_plan(acknowledged=False, escalation_stage=0)
up_commit(c) ==
    /\ up.pc = "commit"
    /\ LET g == guard_call(upload_actions(up.severity), c, last_contact_time,
                           primary_call_counts, FALSE, 0)
       IN  /\ incidents' = [incidents EXCEPT ![up.inc].plan_version = up.v + 1]
           /\ plans' = Append(plans, [incident_id |-> up.inc, version |-> up.v + 1,
                                      model_used |-> "video_upload", replan_interval_s |-> default_replan_interval_s])
           /\ timeline' = log_event(timeline, up.inc, "PLAN_CREATED")
           /\ guard_commit(g, c, g.approved)
           /\ up' = [up EXCEPT !.pc = "exec", !.todo = g.approved]
    /\ UNCHANGED <<now, budget, policies, loop_errors, live_replan, errors, config, cfg, config_updates, risk_score, bc, sockets, clients, sf_writes, write_queue, action_log, guard_history, cameras, sent, active_replan_tasks, replan,
                   ticker, strong, hi, vis, requests>>

\* execute_actions of the upload plan: the next approved action
up_exec(c) ==
    /\ up.pc = "exec"
    /\ up.todo # <<>>
    /\ execute_action(Head(up.todo), up.inc, c)
    /\ up' = [up EXCEPT !.todo = Tail(up.todo)]
    /\ UNCHANGED <<now, budget, policies, loop_errors, live_replan, errors, config, cfg, config_updates, risk_score, bc, sockets, clients, sf_writes, write_queue, last_contact_time, primary_call_counts, guard_history,
                   cameras, plans, approved_count, active_replan_tasks, replan,
                   ticker, strong, hi, vis, requests>>

\* the plan is executed: ACTION_DONE; then the next incident of the batch is
\* announced and planned, or the delayed batch is scheduled, or the task ends
up_done(c) ==
    /\ up.pc = "exec"
    /\ up.todo = <<>>
    /\ LET tl == log_event(timeline, up.inc, "ACTION_DONE")
       IN  IF up.pending # <<>>
             THEN /\ timeline' = log_event(tl, Head(up.pending), "TRIGGER_RECEIVED")
                  /\ up' = [up EXCEPT !.pc = "commit", !.inc = Head(up.pending),
                                      !.v = incidents[Head(up.pending)].plan_version,
                                      !.pending = Tail(up.pending)]
             ELSE /\ timeline' = tl
                  /\ up' = IF up.severity = 4 THEN [UpIdle EXCEPT !.pc = "delayed"]
                           ELSE UpIdle
    /\ UNCHANGED <<now, budget, policies, loop_errors, live_replan, errors, config, cfg, config_updates, risk_score, bc, sockets, clients, sf_writes, write_queue, action_log, last_contact_time, primary_call_counts, guard_history,
                   cameras, incidents, plans, sent, approved_count,
                   active_replan_tasks, replan, ticker, strong, hi, vis, requests>>

\* _delayed_medium_incidents after its 5 s sleep: the medium incidents are
\* inserted in one commit (as many as the incidents bound leaves room for),
\* the first is announced and planned
up_delayed(c) ==
    /\ up.pc = "delayed"
    /\ LET k == Min(medium_count, MaxIncidents - Len(incidents))
           first == Len(incidents) + 1
       IN  IF k = 0
             THEN /\ up' = UpIdle
                  /\ UNCHANGED <<incidents, timeline>>
             ELSE /\ incidents' = append_incidents(incidents, k,
                                                   Incident(c, "POSSIBLE_FALL", 3, 0))
                  /\ timeline' = log_event(timeline, first, "TRIGGER_RECEIVED")
                  /\ up' = [UpIdle EXCEPT !.pc = "commit", !.inc = first, !.v = 0,
                                          !.severity = 3,
                                          !.pending = [j \in 1..(k - 1) |-> first + j]]
    /\ UNCHANGED <<now, budget, policies, loop_errors, live_replan, errors, config, cfg, config_updates, risk_score, bc, sockets, clients, sf_writes, write_queue, action_log, last_contact_time, primary_call_counts, guard_history,
                   cameras, plans, sent, approved_count, active_replan_tasks, replan,
                   ticker, strong, hi, vis, requests>>

(* ------------------------------ the system ----------------------------- *)
\* every coroutine of the process, interleaved at its await points
Next ==
    \/ \E i \in IncidentIds : acknowledge_incident(i)
    \/ \E i \in IncidentIds : false_alarm(i)
    \/ \E i \in IncidentIds, digit \in {"1", "2", "3", "4"} : dtmf_webhook(i, digit)
    \/ \E c \in CameraIds, kind \in {"fall", "edge"} : vision_lookup(kind, c)
    \/ \E c \in CameraIds, has_primary \in BOOLEAN : vision_insert(c, has_primary)
    \/ \E c \in CameraIds, m \in Motions : hi_lookup(c, m)
    \/ \E c \in CameraIds : hi_insert(c)
    \/ \E c \in CameraIds : hi_plan(c)
    \/ \E c \in CameraIds : hi_planner_error(c)
    \/ \E c \in CameraIds : hi_commit(c)
    \/ \E c \in CameraIds : hi_exec(c)
    \/ \E c \in CameraIds : hi_finish(c)
    \/ \E i \in DOMAIN incidents, parsed \in BOOLEAN : strong_read(i, parsed)
    \/ \E i \in DOMAIN incidents : strong_commit(i)
    \/ \E i \in DOMAIN incidents : replan_wake(i, incidents[i].camera_id)
    \/ \E i \in DOMAIN incidents : replan_commit(i, incidents[i].camera_id)
    \/ \E i \in DOMAIN incidents : replan_escalate(i)
    \/ \E i \in DOMAIN incidents : replan_exec(i, incidents[i].camera_id)
    \/ \E i \in DOMAIN incidents : ticker_read(i)
    \/ \E i \in DOMAIN incidents : ticker_commit(i)
    \/ \E c \in CameraIds : up_start(c)
    \/ \E c \in CameraIds : up_commit(c)
    \/ \E c \in CameraIds : up_exec(c)
    \/ \E c \in CameraIds : up_done(c)
    \/ \E c \in CameraIds : up_delayed(c)

Spec == Init /\ [][Next]_vars

\* The runs of the process in which only some of its coroutines are
\* scheduled; each is a run of Spec, so a state or a step reached under one
\* of them is reached by the whole system.

\* trigger routing: a vision callback, FALL_TRIGGER telemetry and a video
\* upload on one camera
NextTriggers ==
    \/ \E c \in CameraIds, kind \in {"fall", "edge"} : vision_lookup(kind, c)
    \/ \E c \in CameraIds, has_primary \in BOOLEAN : vision_insert(c, has_primary)
    \/ \E c \in CameraIds, m \in Motions : hi_lookup(c, m)
    \/ \E c \in CameraIds : hi_insert(c)
    \/ \E c \in CameraIds : hi_plan(c)
    \/ \E c \in CameraIds : hi_commit(c)
    \/ \E c \in CameraIds : hi_exec(c)
    \/ \E c \in CameraIds : hi_finish(c)
    \/ \E c \in CameraIds : up_start(c)
    \/ \E c \in CameraIds : up_commit(c)
    \/ \E c \in CameraIds : up_exec(c)
    \/ \E c \in CameraIds : up_done(c)
    \/ \E c \in CameraIds : up_delayed(c)

SpecTriggers == Init /\ [][NextTriggers]_vars

\* the fall and edge triggers of one camera: the vision callbacks and
\* FALL_TRIGGER telemetry
NextVision ==
    \/ \E c \in CameraIds, kind \in {"fall", "edge"} : vision_lookup(kind, c)
    \/ \E c \in CameraIds, has_primary \in BOOLEAN : vision_insert(c, has_primary)
    \/ \E c \in CameraIds, m \in Motions : hi_lookup(c, m)
    \/ \E c \in CameraIds : hi_insert(c)
    \/ \E c \in CameraIds : hi_plan(c)
    \/ \E c \in CameraIds : hi_commit(c)
    \/ \E c \in CameraIds : hi_exec(c)
    \/ \E c \in CameraIds : hi_finish(c)

SpecVision == Init /\ [][NextVision]_vars

\* the execution of first plans over a gateway whose calls may fail
NextExecutor ==
    \/ \E c \in CameraIds, m \in Motions : hi_lookup(c, m)
    \/ \E c \in CameraIds : hi_insert(c)
    \/ \E c \in CameraIds : hi_plan(c)
    \/ \E c \in CameraIds : hi_commit(c)
    \/ \E c \in CameraIds : hi_exec(c)
    \/ \E c \in CameraIds : hi_finish(c)

InitExecutor == Start(Camera(TRUE, TRUE, escalation_delay_s), Budget(MaxPlans, MaxPlans, 0, 0, MaxGatewayFailures))
SpecExecutor == InitExecutor /\ [][NextExecutor]_vars

\* an incident that leaves ACTIVE while its tasks run: one acknowledgement or
\* false alarm, FALL_TRIGGER telemetry, the replan loop and the severity
\* ticker; the event loop runs every coroutine that is ready
NextShutdown ==
    \/ \E i \in IncidentIds : acknowledge_incident(i)
    \/ \E i \in IncidentIds : false_alarm(i)
    \/ \E c \in CameraIds, m \in Motions : hi_lookup(c, m)
    \/ \E c \in CameraIds : hi_insert(c)
    \/ \E c \in CameraIds : hi_plan(c)
    \/ \E c \in CameraIds : hi_commit(c)
    \/ \E c \in CameraIds : hi_exec(c)
    \/ \E c \in CameraIds : hi_finish(c)
    \/ \E i \in DOMAIN incidents : replan_wake(i, incidents[i].camera_id)
    \/ \E i \in DOMAIN incidents : replan_commit(i, incidents[i].camera_id)
    \/ \E i \in DOMAIN incidents : replan_escalate(i)
    \/ \E i \in DOMAIN incidents : replan_exec(i, incidents[i].camera_id)
    \/ \E i \in DOMAIN incidents : ticker_read(i)
    \/ \E i \in DOMAIN incidents : ticker_commit(i)

InitShutdown == Start(Camera(TRUE, TRUE, escalation_delay_s), Budget(MaxPlans, MaxPlans, 1, MaxTimeDown, 0))

FairShutdown ==
    /\ WF_vars(\E c \in CameraIds : hi_insert(c) \/ hi_plan(c) \/ hi_commit(c) \/ hi_exec(c) \/ hi_finish(c))
    /\ \A i \in IncidentIds :
         /\ WF_vars(i \in DOMAIN incidents /\ replan_wake(i, incidents[i].camera_id))
         /\ WF_vars(i \in DOMAIN incidents /\ replan_commit(i, incidents[i].camera_id))
         /\ WF_vars(i \in DOMAIN incidents /\ replan_escalate(i))
         /\ WF_vars(i \in DOMAIN incidents /\ replan_exec(i, incidents[i].camera_id))
         /\ WF_vars(i \in DOMAIN incidents /\ ticker_read(i))
         /\ WF_vars(i \in DOMAIN incidents /\ ticker_commit(i))

SpecShutdown == InitShutdown /\ [][NextShutdown]_vars /\ FairShutdown

\* the writers of plan_version: FALL_TRIGGER telemetry, the strong-verify
\* task and the replan loop
NextPlans ==
    \/ \E c \in CameraIds, m \in Motions : hi_lookup(c, m)
    \/ \E c \in CameraIds : hi_insert(c)
    \/ \E c \in CameraIds : hi_plan(c)
    \/ \E c \in CameraIds : hi_commit(c)
    \/ \E c \in CameraIds : hi_exec(c)
    \/ \E c \in CameraIds : hi_finish(c)
    \/ \E i \in DOMAIN incidents, parsed \in BOOLEAN : strong_read(i, parsed)
    \/ \E i \in DOMAIN incidents : strong_commit(i)
    \/ \E i \in DOMAIN incidents : replan_wake(i, incidents[i].camera_id)
    \/ \E i \in DOMAIN incidents : replan_commit(i, incidents[i].camera_id)
    \/ \E i \in DOMAIN incidents : replan_exec(i, incidents[i].camera_id)

SpecPlans == Init /\ [][NextPlans]_vars

\* an incident and the caregiver's responses: FALL_TRIGGER telemetry, the
\* replan loop, the severity ticker, the REST endpoints and the DTMF webhook
NextResponses ==
    \/ \E i \in IncidentIds : acknowledge_incident(i)
    \/ \E i \in IncidentIds : false_alarm(i)
    \/ \E i \in IncidentIds, digit \in {"1", "2", "3", "4"} : dtmf_webhook(i, digit)
    \/ \E c \in CameraIds, m \in Motions : hi_lookup(c, m)
    \/ \E c \in CameraIds : hi_insert(c)
    \/ \E c \in CameraIds : hi_plan(c)
    \/ \E c \in CameraIds : hi_commit(c)
    \/ \E c \in CameraIds : hi_exec(c)
    \/ \E c \in CameraIds : hi_finish(c)
    \/ \E i \in DOMAIN incidents : replan_wake(i, incidents[i].camera_id)
    \/ \E i \in DOMAIN incidents : replan_commit(i, incidents[i].camera_id)
    \/ \E i \in DOMAIN incidents : replan_escalate(i)
    \/ \E i \in DOMAIN incidents : replan_exec(i, incidents[i].camera_id)
    \/ \E i \in DOMAIN incidents : ticker_read(i)
    \/ \E i \in DOMAIN incidents : ticker_commit(i)

SpecResponses == Init /\ [][NextResponses]_vars

\* the severity of an incident over two minutes: FALL_TRIGGER telemetry and
\* the severity ticker
NextSeverity ==
    \/ \E c \in CameraIds, m \in Motions : hi_lookup(c, m)
    \/ \E c \in CameraIds : hi_insert(c)
    \/ \E c \in CameraIds : hi_plan(c)
    \/ \E c \in CameraIds : hi_commit(c)
    \/ \E c \in CameraIds : hi_exec(c)
    \/ \E c \in CameraIds : hi_finish(c)
    \/ \E i \in DOMAIN incidents : ticker_read(i)
    \/ \E i \in DOMAIN incidents : ticker_commit(i)

\* FALL_TRIGGER telemetry with a planner that answers, answers text that
\* does not parse, or fails
NextPlanner ==
    \/ \E c \in CameraIds, m \in Motions : hi_lookup(c, m)
    \/ \E c \in CameraIds : hi_insert(c)
    \/ \E c \in CameraIds : hi_plan(c)
    \/ \E c \in CameraIds : hi_planner_error(c)
    \/ \E c \in CameraIds : hi_commit(c)
    \/ \E c \in CameraIds : hi_exec(c)
    \/ \E c \in CameraIds : hi_finish(c)

\* any setting of the camera's voice_enabled and sms_enabled columns
InitPlanner ==
    \E voice_enabled \in BOOLEAN, sms_enabled \in BOOLEAN :
        Start(Camera(voice_enabled, sms_enabled, escalation_delay_s), Budget(MaxPlans, MaxPlans, 0, 0, 0))

SpecPlanner == InitPlanner /\ [][NextPlanner]_vars

\* an unanswered fall on a camera with the default escalation delay:
\* FALL_TRIGGER telemetry, the replan loop and the severity ticker
NextEscalation ==
    \/ \E c \in CameraIds, m \in Motions : hi_lookup(c, m)
    \/ \E c \in CameraIds : hi_insert(c)
    \/ \E c \in CameraIds : hi_plan(c)
    \/ \E c \in CameraIds : hi_commit(c)
    \/ \E c \in CameraIds : hi_exec(c)
    \/ \E c \in CameraIds : hi_finish(c)
    \/ \E i \in DOMAIN incidents : replan_wake(i, incidents[i].camera_id)
    \/ \E i \in DOMAIN incidents : replan_commit(i, incidents[i].camera_id)
    \/ \E i \in DOMAIN incidents : replan_escalate(i)
    \/ \E i \in DOMAIN incidents : replan_exec(i, incidents[i].camera_id)
    \/ \E i \in DOMAIN incidents : ticker_read(i)
    \/ \E i \in DOMAIN incidents : ticker_commit(i)

InitEscalation == Start(Camera(TRUE, TRUE, default_escalation_delay_s), Budget(1, MaxEscalationPlans, 0, MaxEscalationDown, 0))
SpecEscalation == InitEscalation /\ [][NextEscalation]_vars

InitSeverity == Start(Camera(TRUE, TRUE, escalation_delay_s), Budget(MaxPlans, MaxPlans, 0, MaxSeverityDown, 0))
SpecSeverity == InitSeverity /\ [][NextSeverity]_vars

(***************************************************************************)
(* Timeline log, warehouse buffer and websocket fan-out                    *)
(***************************************************************************)

\* the dict log_event queues for the warehouse; id stands for the uuid4
Event(id, incident_id, kind) == [id |-> id, incident_id |-> incident_id, kind |-> kind]

\* deque.append of a deque with maxlen: a full deque discards its leftmost
\* item
deque_append_mut(q, item) == IF Len(q) < maxlen THEN Append(q, item) ELSE q

deque_append(q, item) == IF Len(q) < maxlen THEN Append(q, item) ELSE Append(Tail(q), item)

RECURSIVE rows(_, _)
\* number of incident_timeline rows of the incidents in S
rows(tl, S) == IF S = {} THEN 0 ELSE LET i == CHOOSE x \in S : TRUE IN Len(tl[i]) + rows(tl, S \ {i})

\* broadcast up to its first send: nothing to do without clients, else the
\* iteration over _clients starts and the message is sent to its first
\* element ws
broadcast(id, ws) ==
    IF clients = {} THEN NoBroadcast
    ELSE [pc |-> "send", event |-> id, size |-> Cardinality(clients), start |-> clients, cur |-> ws, visited |-> {}, delivered |-> {}, disconnected |-> {}]

\* log_event called by a handler: commit the timeline row, queue the event
\* for the warehouse, start the broadcast
timeline_log_event(incident_id, kind) ==
    /\ rows(timeline, TimelineIds) < MaxEvents
    /\ bc.pc # "send"
    /\ timeline' = log_event(timeline, incident_id, kind)
    /\ write_queue' = deque_append(write_queue, Event(rows(timeline, TimelineIds) + 1, incident_id, kind))
    /\ \E ws \in IF clients = {} THEN {0} ELSE clients :
           bc' = broadcast(rows(timeline, TimelineIds) + 1, ws)
    /\ UNCHANGED <<now, budget, policies, loop_errors, live_replan, errors, config, cfg, config_updates, risk_score, sockets, clients, sf_writes, action_log, last_contact_time, primary_call_counts, guard_history, cameras, incidents, plans, sent, approved_count, active_replan_tasks, replan, ticker, strong, hi, vis, up, requests>>

\* the fan-out after the send to bc.cur returned (ok) or raised
sent_to(ok) ==
    [bc EXCEPT !.visited = @ \cup {bc.cur},
               !.delivered = IF ok THEN @ \cup {bc.cur} ELSE @,
               !.disconnected = IF ok THEN @ ELSE @ \cup {bc.cur}]

\* broadcast resumed from a send: the client is noted as disconnected when
\* the send raised; then the set iterator raises when the size of _clients
\* changed meanwhile (caught by log_event), else the message is sent to the
\* next client, and after the last one the clients that raised are removed
broadcast_send ==
    /\ bc.pc = "send"
    /\ \E ok \in BOOLEAN :
           IF Cardinality(clients) # bc.size
           THEN bc' = [sent_to(ok) EXCEPT !.pc = "aborted"] /\ clients' = clients
           ELSE \/ /\ (clients \ sent_to(ok).visited) \cap bc.start = {}
                   /\ bc' = [sent_to(ok) EXCEPT !.pc = "done"]
                   /\ clients' = clients \ sent_to(ok).disconnected
                \/ \E ws \in clients \ sent_to(ok).visited :
                       /\ bc' = [sent_to(ok) EXCEPT !.cur = ws]
                       /\ clients' = clients
    /\ UNCHANGED <<now, budget, policies, loop_errors, live_replan, errors, config, cfg, config_updates, risk_score, sockets, sf_writes, write_queue, action_log, last_contact_time, primary_call_counts, guard_history, cameras, incidents, plans, timeline, sent, approved_count, active_replan_tasks, replan, ticker, strong, hi, vis, up, requests>>

\* websocket_endpoint up to its receive loop
ws_connect(ws) ==
    /\ sockets[ws] = "new"
    /\ sockets' = [sockets EXCEPT ![ws] = "open"]
    /\ clients' = clients \cup {ws}
    /\ UNCHANGED <<now, budget, policies, loop_errors, live_replan, errors, config, cfg, config_updates, risk_score, bc, sf_writes, write_queue, action_log, last_contact_time, primary_call_counts, guard_history, cameras, incidents, plans, timeline, sent, approved_count, active_replan_tasks, replan, ticker, strong, hi, vis, up, requests>>

\* websocket_endpoint from WebSocketDisconnect on
ws_disconnect(ws) ==
    /\ sockets[ws] = "open"
    /\ sockets' = [sockets EXCEPT ![ws] = "closed"]
    /\ clients' = clients \ {ws}
    /\ UNCHANGED <<now, budget, policies, loop_errors, live_replan, errors, config, cfg, config_updates, risk_score, bc, sf_writes, write_queue, action_log, last_contact_time, primary_call_counts, guard_history, cameras, incidents, plans, timeline, sent, approved_count, active_replan_tasks, replan, ticker, strong, hi, vis, up, requests>>

\* number of the flush that comes next
flush_no == IF sf_writes = <<>> THEN 1 ELSE sf_writes[Len(sf_writes)].flush + 1

\* a flush that gives up at the first write that raises
drain_mut(q, failed, n) == [k \in {j \in 1..Len(q) : \A f \in failed : j <= f} |-> [id |-> q[k].id, ok |-> k \notin failed, flush |-> n]]

\* the calls of write_timeline_event of one flush: one per popped item, in
\* order; failed holds the positions whose call raises
drain(q, failed, n) == [k \in 1..Len(q) |-> [id |-> q[k].id, ok |-> k \notin failed, flush |-> n]]

\* flush_to_snowflake (no await inside): pop every item from the left and
\* write it, logging the writes that raise
flush_to_snowflake ==
    /\ \E failed \in SUBSET (1..Len(write_queue)) :
           sf_writes' = sf_writes \o drain(write_queue, failed, flush_no)
    /\ write_queue' = <<>>
    /\ UNCHANGED <<now, budget, policies, loop_errors, live_replan, errors, config, cfg, config_updates, risk_score, bc, sockets, clients, action_log, last_contact_time, primary_call_counts, guard_history, cameras, incidents, plans, timeline, sent, approved_count, active_replan_tasks, replan, ticker, strong, hi, vis, up, requests>>

Kinds == {"RISK_UPDATED"}

\* log_event calls and scheduled flushes, no websocket client
NextWarehouse ==
    \/ \E i \in IncidentIds, kind \in Kinds : timeline_log_event(i, kind)
    \/ flush_to_snowflake

SpecWarehouse == Init /\ [][NextWarehouse]_vars

\* log_event calls while websocket clients connect and disconnect
NextBroadcast ==
    \/ \E i \in IncidentIds, kind \in Kinds : timeline_log_event(i, kind)
    \/ broadcast_send
    \/ \E ws \in Sockets : ws_connect(ws)
    \/ \E ws \in Sockets : ws_disconnect(ws)

SpecBroadcast == Init /\ [][NextBroadcast]_vars

(***************************************************************************)
(* Config suggestions applied in idle windows                              *)
(***************************************************************************)

\* is_camera_idle evaluated at one instant: risk_score <= 0.3 and no ACTIVE
\* incident on the camera
is_camera_idle(camera_id) == risk_score[camera_id] <= 30 /\ active_incidents(camera_id) = {}

\* the config_json of the suggestions read from the warehouse
Patches == {[escalation_delay_s |-> 30], [check_interval_s |-> 10, escalation_delay_s |-> 30, voice_enabled |-> 0], [voice_enabled |-> 0]}

allowed_keys == {"motion_spike_threshold", "stillness_threshold", "risk_threshold_low", "risk_threshold_high", "escalation_delay_s"}

\* {k: v for k, v in config_json.items() if k in allowed_keys}
filtered(config_json) == [k \in DOMAIN config_json \cap allowed_keys |-> config_json[k]]

\* {**old_config, **filtered}
new_config(old_config, patch) == [k \in DOMAIN old_config \cup DOMAIN patch |-> IF k \in DOMAIN patch THEN patch[k] ELSE old_config[k]]

\* camera.config of the camera row
camera_config(c) == [k \in DOMAIN config[c] \cup {"escalation_delay_s"} |-> IF k = "escalation_delay_s" THEN cameras[c].escalation_delay_s ELSE config[c][k]]

\* apply_config_suggestions for a suggestion on camera c, and the first read
\* of is_camera_idle: the camera row and its risk_score
cfg_start(c, patch) ==
    /\ cfg.pc = "idle"
    /\ Len(config_updates) < MaxConfigUpdates
    /\ cfg' = IF risk_score[c] > 30 THEN NoConfig
              ELSE [pc |-> "incidents", camera_id |-> c, patch |-> patch]
    /\ UNCHANGED <<config, now, budget, policies, loop_errors, live_replan, errors, config_updates, risk_score, bc, sockets, clients, sf_writes, write_queue, action_log, last_contact_time, primary_call_counts, guard_history, cameras, incidents, plans, timeline, sent, approved_count, active_replan_tasks, replan, ticker, strong, hi, vis, up, requests>>

\* the second read of is_camera_idle: the ACTIVE incidents of the camera;
\* an idle camera's suggestion is skipped when none of its keys is allowed
cfg_incidents ==
    /\ cfg.pc = "incidents"
    /\ cfg' = IF active_incidents(cfg.camera_id) # {} \/ DOMAIN filtered(cfg.patch) = {}
              THEN NoConfig
              ELSE [cfg EXCEPT !.pc = "merge"]
    /\ UNCHANGED <<config, now, budget, policies, loop_errors, live_replan, errors, config_updates, risk_score, bc, sockets, clients, sf_writes, write_queue, action_log, last_contact_time, primary_call_counts, guard_history, cameras, incidents, plans, timeline, sent, approved_count, active_replan_tasks, replan, ticker, strong, hi, vis, up, requests>>

\* the camera row is read again, the filtered patch merged into its config
\* and a ConfigUpdate row added, in one commit
cfg_merge ==
    /\ cfg.pc = "merge"
    /\ LET merged == new_config(camera_config(cfg.camera_id), filtered(cfg.patch))
       IN  /\ cameras' = [cameras EXCEPT ![cfg.camera_id].escalation_delay_s = merged["escalation_delay_s"]]
           /\ config' = [config EXCEPT ![cfg.camera_id] = [k \in DOMAIN merged \ {"escalation_delay_s"} |-> merged[k]]]
    /\ config_updates' = Append(config_updates, [camera_id |-> cfg.camera_id, config_json |-> filtered(cfg.patch), applied |-> TRUE])
    /\ cfg' = [cfg EXCEPT !.pc = "log"]
    /\ UNCHANGED <<now, budget, policies, loop_errors, live_replan, errors, risk_score, bc, sockets, clients, sf_writes, write_queue, action_log, last_contact_time, primary_call_counts, guard_history, incidents, plans, timeline, sent, approved_count, active_replan_tasks, replan, ticker, strong, hi, vis, up, requests>>

\* log_event("system", camera, CONFIG_SUGGESTION_APPLIED)
cfg_log ==
    /\ cfg.pc = "log"
    /\ bc.pc # "send"
    /\ timeline' = log_event(timeline, SystemId, "CONFIG_SUGGESTION_APPLIED")
    /\ write_queue' = deque_append(write_queue, Event(rows(timeline, TimelineIds) + 1, SystemId, "CONFIG_SUGGESTION_APPLIED"))
    /\ \E ws \in IF clients = {} THEN {0} ELSE clients :
           bc' = broadcast(rows(timeline, TimelineIds) + 1, ws)
    /\ cfg' = NoConfig
    /\ UNCHANGED <<now, budget, policies, loop_errors, live_replan, errors, config, config_updates, risk_score, sockets, clients, sf_writes, action_log, last_contact_time, primary_call_counts, guard_history, cameras, incidents, plans, sent, approved_count, active_replan_tasks, replan, ticker, strong, hi, vis, up, requests>>

\* the config optimization job while fall triggers and a video upload
\* arrive for the camera
NextConfig ==
    \/ \E c \in CameraIds, patch \in Patches : cfg_start(c, patch)
    \/ cfg_incidents
    \/ cfg_merge
    \/ cfg_log
    \/ \E c \in CameraIds, m \in Motions : hi_lookup(c, m)
    \/ \E c \in CameraIds : hi_insert(c)
    \/ \E c \in CameraIds : hi_plan(c)
    \/ \E c \in CameraIds : hi_commit(c)
    \/ \E c \in CameraIds : hi_exec(c)
    \/ \E c \in CameraIds : hi_finish(c)
    \/ \E c \in CameraIds : up_start(c)
    \/ \E c \in CameraIds : up_commit(c)
    \/ \E c \in CameraIds : up_exec(c)
    \/ \E c \in CameraIds : up_done(c)
    \/ \E c \in CameraIds : up_delayed(c)

SpecConfig == Init /\ [][NextConfig]_vars

(***************************************************************************)
(* Fall triggers for cameras that are not registered                       *)
(***************************************************************************)

\* camera ids of telemetry packets that have no row in the cameras table
UnknownCameraIds == {"cam0"}

\* handle_incident for a packet whose camera is not found: it returns the
\* error result before anything is written
hi_unknown_camera(c) ==
    /\ hi.pc = "idle"
    /\ c \notin DOMAIN cameras
    /\ Len(errors) < MaxErrors
    /\ errors' = Append(errors, [camera_id |-> c, error |-> "Camera not found"])
    /\ UNCHANGED <<now, budget, policies, loop_errors, live_replan, config, cfg, config_updates, risk_score, bc, sockets, clients, sf_writes, write_queue, action_log, last_contact_time, primary_call_counts, guard_history, cameras, incidents, plans, timeline, sent, approved_count, active_replan_tasks, replan, ticker, strong, hi, vis, up, requests>>

\* fall triggers for registered and unregistered cameras
NextUnknown ==
    \/ \E c \in UnknownCameraIds : hi_unknown_camera(c)
    \/ \E c \in CameraIds, m \in Motions : hi_lookup(c, m)
    \/ \E c \in CameraIds : hi_insert(c)
    \/ \E c \in CameraIds : hi_plan(c)
    \/ \E c \in CameraIds : hi_commit(c)
    \/ \E c \in CameraIds : hi_exec(c)
    \/ \E c \in CameraIds : hi_finish(c)

SpecUnknown == Init /\ [][NextUnknown]_vars

(***************************************************************************)
(* Exceptions inside the iterations of the replan loop and the ticker      *)
(***************************************************************************)

\* what the except Exception handlers of the loops log
LoopError(task, i) == [task |-> task, incident_id |-> i, plan_version |-> incidents[i].plan_version, time_down_s |-> incidents[i].time_down_s]

\* an exception inside a replan iteration that ends the task
replan_error_mut(i) ==
    /\ replan[i].pc \in {"sleep", "commit", "escalate", "exec"}
    /\ incidents[i].status = "ACTIVE"
    /\ Len(loop_errors) < budget.failures
    /\ loop_errors' = Append(loop_errors, LoopError("replan", i))
    /\ replan' = [replan EXCEPT ![i] = NoTask]
    /\ UNCHANGED <<ticker, now, budget, policies, live_replan, errors, config, cfg, config_updates, risk_score, bc, sockets, clients, sf_writes, write_queue, action_log, last_contact_time, primary_call_counts, guard_history, cameras, incidents, plans, timeline, sent, approved_count, active_replan_tasks, strong, hi, vis, up, requests>>

\* an exception inside a replan iteration (a select, the planner call, a
\* commit, log_event or execute_actions raises): it is logged and the task
\* sleeps 5 s in the handler
replan_error(i) ==
    /\ replan[i].pc \in {"sleep", "commit", "escalate", "exec"}
    /\ incidents[i].status = "ACTIVE"
    /\ Len(loop_errors) < budget.failures
    /\ loop_errors' = Append(loop_errors, LoopError("replan", i))
    /\ replan' = [replan EXCEPT ![i] = [Sleeping(replan[i].interval_s) EXCEPT !.pc = "failed"]]
    /\ UNCHANGED <<ticker, now, budget, policies, live_replan, errors, config, cfg, config_updates, risk_score, bc, sockets, clients, sf_writes, write_queue, action_log, last_contact_time, primary_call_counts, guard_history, cameras, incidents, plans, timeline, sent, approved_count, active_replan_tasks, strong, hi, vis, up, requests>>

\* the handler's sleep is over: the loop goes on with asyncio.sleep(interval_s)
replan_retry(i) ==
    /\ replan[i].pc = "failed"
    /\ replan' = [replan EXCEPT ![i].pc = "sleep"]
    /\ UNCHANGED <<loop_errors, ticker, now, budget, policies, live_replan, errors, config, cfg, config_updates, risk_score, bc, sockets, clients, sf_writes, write_queue, action_log, last_contact_time, primary_call_counts, guard_history, cameras, incidents, plans, timeline, sent, approved_count, active_replan_tasks, strong, hi, vis, up, requests>>

\* an exception inside a ticker iteration (the select or the commit raises):
\* it is logged and the ticker sleeps again
ticker_error(i) ==
    /\ ticker[i].n > 0
    /\ ticker[i].pc \in {"sleep", "commit"}
    /\ incidents[i].status = "ACTIVE"
    /\ Len(loop_errors) < budget.failures
    /\ loop_errors' = Append(loop_errors, LoopError("ticker", i))
    /\ ticker' = [ticker EXCEPT ![i] = [NoTicker EXCEPT !.n = ticker[i].n]]
    /\ UNCHANGED <<replan, now, budget, policies, live_replan, errors, config, cfg, config_updates, risk_score, bc, sockets, clients, sf_writes, write_queue, action_log, last_contact_time, primary_call_counts, guard_history, cameras, incidents, plans, timeline, sent, approved_count, active_replan_tasks, strong, hi, vis, up, requests>>

\* one fall trigger, then its replan loop and severity ticker with
\* iterations that raise
NextLoopErrors ==
    \/ \E c \in CameraIds, m \in Motions : hi_lookup(c, m)
    \/ \E c \in CameraIds : hi_insert(c)
    \/ \E c \in CameraIds : hi_plan(c)
    \/ \E c \in CameraIds : hi_commit(c)
    \/ \E c \in CameraIds : hi_exec(c)
    \/ \E c \in CameraIds : hi_finish(c)
    \/ \E i \in DOMAIN incidents : replan_wake(i, incidents[i].camera_id)
    \/ \E i \in DOMAIN incidents : replan_commit(i, incidents[i].camera_id)
    \/ \E i \in DOMAIN incidents : replan_escalate(i)
    \/ \E i \in DOMAIN incidents : replan_exec(i, incidents[i].camera_id)
    \/ \E i \in DOMAIN incidents : replan_error(i)
    \/ \E i \in DOMAIN incidents : replan_retry(i)
    \/ \E i \in DOMAIN incidents : ticker_read(i)
    \/ \E i \in DOMAIN incidents : ticker_commit(i)
    \/ \E i \in DOMAIN incidents : ticker_error(i)

InitLoopErrors == Start(Camera(TRUE, TRUE, escalation_delay_s), Budget(1, MaxPlans, 0, MaxTimeDown, MaxLoopErrors))

\* the event loop runs every coroutine that is ready; nothing makes an
\* iteration raise
FairLoopErrors ==
    /\ WF_vars(\E c \in CameraIds : hi_insert(c) \/ hi_plan(c) \/ hi_commit(c) \/ hi_exec(c) \/ hi_finish(c))
    /\ \A i \in IncidentIds :
         /\ WF_vars(i \in DOMAIN incidents /\ replan_wake(i, incidents[i].camera_id))
         /\ WF_vars(i \in DOMAIN incidents /\ replan_commit(i, incidents[i].camera_id))
         /\ WF_vars(i \in DOMAIN incidents /\ replan_escalate(i))
         /\ WF_vars(i \in DOMAIN incidents /\ replan_exec(i, incidents[i].camera_id))
         /\ WF_vars(i \in DOMAIN incidents /\ replan_retry(i))
         /\ WF_vars(i \in DOMAIN incidents /\ ticker_read(i))
         /\ WF_vars(i \in DOMAIN incidents /\ ticker_commit(i))

SpecLoopErrors == InitLoopErrors /\ [][NextLoopErrors]_vars /\ FairLoopErrors





(* ---------------------- properties of the guard ------------------------ *)
ApprovedContact(e) == e.approved /\ e.action \in ContactClass

\* a reset_camera_state(c) lies strictly between entries a and b
ResetBetween(a, b, c) ==
    \E k \in (a + 1)..(b - 1) :
        guard_history[k].action = "RESET" /\ guard_history[k].camera_id = c

RECURSIVE voice_approved_since_reset(_, _)
voice_approved_since_reset(h, c) ==
    IF h = <<>> THEN 0
    ELSE LET e == h[Len(h)]
         IN  IF e.camera_id = c /\ e.action = "RESET" THEN 0
             ELSE (IF e.camera_id = c /\ e.approved
                      /\ e.action = "START_VOICE_CALL_PRIMARY" THEN 1 ELSE 0)
                  + voice_approved_since_reset(SubSeq(h, 1, Len(h) - 1), c)

C4_VoiceCap ==
    \A c \in CameraIds :
        voice_approved_since_reset(guard_history, c) <= max_primary_call_attempts

\* the cap was reached and a further call was refused for that reason
C4_Witness ==
    \E c \in CameraIds :
        /\ voice_approved_since_reset(guard_history, c) = max_primary_call_attempts
        /\ guard_history[Len(guard_history)].action = "START_VOICE_CALL_PRIMARY"
        /\ guard_history[Len(guard_history)].reason = "Max primary call attempts reached"

(* -------------------- properties of trigger routing -------------------- *)
\* C1: every camera has at most one Incident with status ACTIVE, under any
\* interleaving of vision callbacks, FALL_TRIGGER telemetry and video-upload
\* incident creation on the camera.
C1_OneActivePerCamera ==
    \A c \in CameraIds : Cardinality(active_incidents(c)) <= 1

\* C2: every SMS or voice call that reached the gateway corresponds to an
\* action the guard approved for that camera before: per camera and channel
\* the sends never outnumber the approvals of the actions that send on it.
C2_SendsApproved ==
    \A c \in CameraIds :
        /\ sent[c]["sms_primary"] <= approved_count[c]["SEND_SMS_PRIMARY"]
                                     + approved_count[c]["SEND_LOW_PRIORITY_HEADSUP"]
        /\ sent[c]["voice_primary"] <= approved_count[c]["START_VOICE_CALL_PRIMARY"]
        /\ sent[c]["sms_backup"] <= approved_count[c]["ESCALATE_TO_BACKUP"]
        /\ sent[c]["voice_backup"] <= approved_count[c]["ESCALATE_TO_BACKUP"]

(* ----------------------- properties of the plans ----------------------- *)
\* C6: the IncidentPlan rows of one incident carry strictly increasing
\* versions in the order they were persisted (so no two share a version).
C6_VersionsIncrease ==
    \A p \in DOMAIN plans, q \in DOMAIN plans :
        (p < q /\ plans[p].incident_id = plans[q].incident_id)
        => plans[p].version < plans[q].version

(* ------------------ properties of the incident's course ---------------- *)
\* the timeline events a step appends for incident i
appended(i) ==
    {timeline'[i][k] : k \in (Len(timeline[i]) + 1)..Len(timeline'[i])}

\* the kinds of the timeline events of incident i so far
logged(i) == {timeline[i][k] : k \in DOMAIN timeline[i]}

\* C5: no step lowers an incident's escalation_stage, and no step leaves it
\* above 2.
C5_StageMonotoneCapped ==
    [][\A i \in DOMAIN incidents :
          /\ incidents'[i].escalation_stage >= incidents[i].escalation_stage
          /\ incidents'[i].escalation_stage <= 2]_vars

\* C7: a step taken while the incident's status is ACKED or CLOSED appends no
\* ACTION_EXECUTED, REPLAN or SEVERITY_TICK event to its timeline.
C7_QuietAfterAck ==
    [][\A i \in DOMAIN incidents :
          incidents[i].status \in {"ACKED", "CLOSED"}
          => appended(i) \cap {"ACTION_EXECUTED", "REPLAN", "SEVERITY_TICK"} = {}]_vars

\* C8: every timeline starts with TRIGGER_RECEIVED, and a step taken after a
\* CLOSED event was logged, or while the incident's status is CLOSED, appends
\* no event to the incident's timeline.
C8_TimelineTrace ==
    [][\A i \in IncidentIds :
          /\ timeline'[i] # <<>> => timeline'[i][1] = "TRIGGER_RECEIVED"
          /\ ( \/ "CLOSED" \in logged(i)
               \/ (i \in DOMAIN incidents /\ incidents[i].status = "CLOSED") )
             => timeline'[i] = timeline[i]]_vars

\* the step acknowledges incident i, marks it a false alarm or closes it
responded(i) ==
    \/ appended(i) \cap {"ACK_RECEIVED", "CLOSED"} # {}
    \/ incidents[i].status # "CLOSED" /\ incidents'[i].status = "CLOSED"

\* C9: after a step that acknowledges an incident, marks it a false alarm or
\* closes it, neither guard map holds an entry for the incident's camera.
C9_GuardClearedOnResponse ==
    [][\A i \in DOMAIN incidents :
          responded(i)
          => /\ incidents[i].camera_id \notin DOMAIN last_contact_time'
             /\ incidents[i].camera_id \notin DOMAIN primary_call_counts']_vars

\* C10: an acknowledgement (a step that logs ACK_RECEIVED) of an incident
\* whose status is CLOSED leaves its status, verdict, acknowledged and ack_by
\* as they were.
C10_AckOnClosedNoOp ==
    [][\A i \in DOMAIN incidents :
          (incidents[i].status = "CLOSED" /\ "ACK_RECEIVED" \in appended(i))
          => /\ incidents'[i].status = incidents[i].status
             /\ incidents'[i].verdict = incidents[i].verdict
             /\ incidents'[i].acknowledged = incidents[i].acknowledged
             /\ incidents'[i].ack_by = incidents[i].ack_by]_vars

\* C11: the only status transitions of an incident are ACTIVE to ACKED and
\* ACTIVE to CLOSED: a step changes the status of an incident only when it
\* was ACTIVE, so ACKED (and CLOSED) never changes again.
C11_StatusTransitions ==
    [][\A i \in DOMAIN incidents :
          incidents'[i].status # incidents[i].status
          => /\ incidents[i].status = "ACTIVE"
             /\ incidents'[i].status \in {"ACKED", "CLOSED"}]_vars

(* ---------------------- properties of re-triggers ---------------------- *)
\* the TRIGGER_RECEIVED events of incident i so far
triggers(i) == Cardinality({k \in DOMAIN timeline[i] : timeline[i][k] = "TRIGGER_RECEIVED"})

\* handle_incident is at work on incident i, which it found ACTIVE (the
\* incident was announced before and again by this call)
retriggered(i) == hi.pc # "idle" /\ hi.inc = i /\ triggers(i) >= 2

\* C12: a step of handle_incident for a trigger that found the camera's
\* ACTIVE incident inserts no incident and leaves that incident's
\* severity_seed and severity_current as they were.
C12_RetriggerKeepsSeverity ==
    [][\A i \in DOMAIN incidents :
          (retriggered(i) /\ hi' # hi)
          => /\ Len(incidents') = Len(incidents)
             /\ incidents'[i].severity_seed = incidents[i].severity_seed
             /\ incidents'[i].severity_current = incidents[i].severity_current]_vars

(* ------------------------ properties of severity ----------------------- *)
\* C13: in every reachable state the severity_current of every incident is
\* between 1 and 5, however it was written: at creation, by the copy of the
\* plan's seed on a first plan or re-trigger, by every tick of the ticker
C13_SeverityInRange ==
    \A i \in DOMAIN incidents : incidents[i].severity_current \in 1..5

\* the ticker raised a planned incident of seed 1 through every step to 5
C13_Witness ==
    \E i \in DOMAIN incidents :
        /\ incidents[i].severity_seed = 1
        /\ incidents[i].time_down_s > 120
        /\ incidents[i].severity_current = 5
        /\ incidents[i].plan_version >= 2

C15_PlannerFailureHandled ==
    [][/\ (hi.pc = "plan" /\ hi'.pc = "commit")
          => /\ hi'.calls \in {<<first_frames>>, <<first_frames, first_frames \div 2>>}
             /\ hi'.plan \notin PlannerPlans => Len(hi'.calls) = 2
       /\ (hi.pc # "idle" /\ hi'.pc = "idle")
          => /\ \E k \in DOMAIN plans : plans[k].incident_id = hi.inc
             /\ \E k \in DOMAIN timeline[hi.inc] : timeline[hi.inc][k] = "PLAN_CREATED"
             /\ hi.inc \in active_replan_tasks'
             /\ replan'[hi.inc].pc = "sleep"
             /\ ticker'[hi.inc].n = ticker[hi.inc].n + 1]_vars

\* C16: the fallback plan handle_incident falls back to is determined by the
\* packet's motion and the camera's voice_enabled: POSSIBLE_FALL, seed 4 when
\* motion > 0.8 and 3 otherwise, confidence 0.3, replan interval 5 s, an SMS
\* without delay, followed by a voice call delayed by 1 s exactly when
\* voice_enabled and the seed is at least 4
C16_FallbackPlan ==
    [][(hi.pc = "plan" /\ hi'.pc = "commit" /\ hi'.plan \notin PlannerPlans)
       => LET seed == IF hi.motion > 80 THEN 4 ELSE 3
              voice == cameras[incidents[hi.inc].camera_id].voice_enabled /\ seed >= 4
          IN  hi'.plan = [verdict |-> "POSSIBLE_FALL", severity_seed |-> seed,
                          confidence |-> 30, replan_interval_s |-> 5,
                          actions |->
                            IF voice
                              THEN <<[type |-> "SEND_SMS_PRIMARY", delay_s |-> 0],
                                     [type |-> "START_VOICE_CALL_PRIMARY", delay_s |-> 1]>>
                              ELSE <<[type |-> "SEND_SMS_PRIMARY", delay_s |-> 0]>>]]_vars

\* two planner calls failed and the fallback plan with the voice call stands in
C16_Witness ==
    /\ hi.pc = "commit"
    /\ Len(hi.calls) = 2
    /\ hi.plan.verdict = "POSSIBLE_FALL" /\ hi.plan.confidence = 30
    /\ Len(hi.plan.actions) = 2

\* C17: with fresh guard state and a camera with voice and SMS enabled, a
\* first plan [SEND_SMS_PRIMARY(0), START_VOICE_CALL_PRIMARY(delay >= 1 s)]
\* has both its actions approved by the guard
C17_FirstPlanApproved ==
    [][(/\ hi.pc = "commit" /\ hi'.pc # "commit"
        /\ last_contact_time = <<>> /\ primary_call_counts = <<>>
        /\ cameras[incidents[hi.inc].camera_id].voice_enabled
        /\ cameras[incidents[hi.inc].camera_id].sms_enabled
        /\ Len(hi.plan.actions) = 2
        /\ hi.plan.actions[1] = PlanAction("SEND_SMS_PRIMARY", 0)
        /\ hi.plan.actions[2].type = "START_VOICE_CALL_PRIMARY"
        /\ hi.plan.actions[2].delay_s >= 1)
       => hi'.todo = hi.plan.actions]_vars

(* ------------------------ properties of escalation --------------------- *)
\* C18: with escalation_delay_s = 60 an unacknowledged fall is at stage 1
\* from t = 61 s and at stage 2 from t = 121 s: the second escalation waits a
\* further escalation delay after the first
C18_EscalationTimes ==
    \A i \in DOMAIN incidents :
        /\ incidents[i].escalation_stage >= 1 => incidents[i].time_down_s >= 61
        /\ incidents[i].escalation_stage >= 2 => incidents[i].time_down_s >= 121

(* -------------------- properties of the acknowledgement ---------------- *)
\* C19: the step that acknowledges an ACTIVE incident lowers its
\* severity_current by 1, not below 1
C19_AckLowersSeverity ==
    [][\A i \in DOMAIN incidents :
          (/\ incidents[i].status = "ACTIVE"
           /\ ~incidents[i].acknowledged
           /\ incidents'[i].acknowledged)
          => incidents'[i].severity_current = Max(incidents[i].severity_current - 1, 1)]_vars

\* C20: a step taken after ACK_RECEIVED was logged for an incident appends no
\* ESCALATION event to its timeline and leaves its escalation_stage as it is
C20_NoEscalationAfterAck ==
    [][\A i \in DOMAIN incidents :
          "ACK_RECEIVED" \in logged(i)
          => /\ "ESCALATION" \notin appended(i)
             /\ incidents'[i].escalation_stage = incidents[i].escalation_stage]_vars

(* ----------------------- properties of a first plan -------------------- *)
\* the guard decision of the first-plan approval for an action type
decided(type) == {hi'.decisions[k] : k \in {j \in DOMAIN hi'.decisions : hi'.decisions[j].action = type}}

\* C21: on a camera with voice disabled (SMS enabled, no contact yet) a plan
\* with SEND_SMS_PRIMARY and START_VOICE_CALL_PRIMARY has the SMS approved
\* and the voice call rejected with 'Voice disabled for this camera', and no
\* voice call is made
C21_VoiceDisabled ==
    [][(/\ hi.pc = "commit" /\ hi'.pc # "commit"
        /\ last_contact_time = <<>>
        /\ ~cameras[incidents[hi.inc].camera_id].voice_enabled
        /\ cameras[incidents[hi.inc].camera_id].sms_enabled
        /\ {hi.plan.actions[k].type : k \in DOMAIN hi.plan.actions}
             = {"SEND_SMS_PRIMARY", "START_VOICE_CALL_PRIMARY"})
       => /\ decided("SEND_SMS_PRIMARY")
               = {[action |-> "SEND_SMS_PRIMARY", approved |-> TRUE, reason |-> ""]}
          /\ decided("START_VOICE_CALL_PRIMARY")
               = {[action |-> "START_VOICE_CALL_PRIMARY", approved |-> FALSE,
                   reason |-> "Voice disabled for this camera"]}
          /\ sent'[incidents[hi.inc].camera_id]["voice_primary"] = 0]_vars

(* ------------------------ properties of the hand-off ------------------- *)
\* no trigger handler is at work on incident i
settled(i) == vis.pc = "idle" /\ (hi.pc = "idle" \/ hi.inc # i)

\* C22: an ACTIVE incident created by a fall or edge trigger, once the
\* handler that created it is through, has its first plan persisted with
\* PLAN_CREATED, a registered replan loop and a severity ticker
C22_HandedToController ==
    \A i \in DOMAIN incidents :
        (incidents[i].status = "ACTIVE" /\ settled(i))
        => /\ \E k \in DOMAIN plans : plans[k].incident_id = i
           /\ "PLAN_CREATED" \in logged(i)
           /\ i \in active_replan_tasks /\ replan[i].pc # "none"
           /\ ticker[i].n >= 1

(* ------------------------ properties of the executor ------------------- *)
\* C23: execute_actions takes the approved actions in list order and goes on
\* to the later ones whatever happened to one of them; each action leaves
\* exactly one ActionLog, whose result holds the external id or the error
\* string, and exactly one ACTION_EXECUTED event
C23_EveryActionLogged ==
    [][(hi.pc = "exec" /\ hi' # hi)
       => LET i == hi.inc
          IN  /\ Len(action_log') = Len(action_log) + 1
              /\ action_log'[Len(action_log')].incident_id = i
              /\ action_log'[Len(action_log')].action_type = Head(hi.todo).type
              /\ \A j \in DOMAIN action_log'[Len(action_log')].result :
                    action_log'[Len(action_log')].result[j] # "None"
              /\ timeline'[i] = Append(timeline[i], "ACTION_EXECUTED")
              /\ hi'.todo = Tail(hi.todo)]_vars

(* --------------------- properties of the strong verify ----------------- *)
\* C24: a step of the strong-verify task calls neither the guard, nor the
\* executor, nor the gateway; it changes at most the incident's plan_version
\* and verdict, adds one IncidentPlan with model_used 'strong' and logs one
\* PLAN_CREATED
C24_StrongVerifyFrame ==
    [][\A i \in DOMAIN incidents :
          (strong[i].pc \in {"start", "commit"} /\ strong'[i] # strong[i])
          => /\ UNCHANGED <<last_contact_time, primary_call_counts, approved_count,
                            sent, action_log, cameras, replan, ticker,
                            active_replan_tasks>>
             /\ incidents' = [incidents EXCEPT
                                ![i].plan_version = incidents'[i].plan_version,
                                ![i].verdict = incidents'[i].verdict]
             /\ \/ plans' = plans /\ timeline' = timeline /\ incidents' = incidents
                \/ /\ plans' = Append(plans, [incident_id |-> i,
                                               version |-> incidents'[i].plan_version,
                                               model_used |-> "strong", replan_interval_s |-> default_replan_interval_s])
                   /\ timeline' = [timeline EXCEPT ![i] = Append(@, "PLAN_CREATED")]]_vars

\* the strong-verify task persisted its plan
C24_Witness ==
    \E k \in DOMAIN plans :
        /\ plans[k].model_used = "strong"
        /\ incidents[plans[k].incident_id].plan_version >= 2
        /\ strong[plans[k].incident_id].pc = "none"

(* ------------------------ properties of the tasks ---------------------- *)
\* C25: once an incident is not ACTIVE, its replan loop and every severity
\* ticker started for it end, also those a handle_incident call that was in
\* flight at that moment starts afterwards
C25_TasksTerminate ==
    \A i \in IncidentIds :
        (i \in DOMAIN incidents /\ incidents[i].status # "ACTIVE")
        ~> (/\ replan[i].pc = "none" /\ ticker[i].n = 0
            /\ (hi.pc = "idle" \/ hi.inc # i))

\* a loop registered after the acknowledgement, by a call in flight, has ended
C25_Witness ==
    \E i \in DOMAIN incidents :
        /\ incidents[i].status = "ACKED"
        /\ i \in active_replan_tasks
        /\ "PLAN_CREATED" \in logged(i)
        /\ replan[i].pc = "none" /\ ticker[i].n = 0 /\ hi.pc = "idle"

\* C26: no two execute_actions runs for one incident are in progress at the
\* same time, whether started by the first-plan path, a re-trigger or the
\* replan loop
C26_NoOverlappingExecution ==
    \A i \in DOMAIN incidents :
        ~(hi.pc = "exec" /\ hi.inc = i /\ replan[i].pc = "exec")

\* C27: the warehouse buffer never holds more than maxlen events; a log_event
\* call on a full buffer drops the oldest event and keeps the new one, and
\* the events that remain keep their order
C27_BoundedBuffer ==
    [][/\ Len(write_queue') <= maxlen
       /\ timeline' # timeline =>
              /\ write_queue'[Len(write_queue')].id = rows(timeline', IncidentIds)
              /\ SubSeq(write_queue', 1, Len(write_queue') - 1) =
                     IF Len(write_queue) = maxlen THEN Tail(write_queue) ELSE write_queue]_vars

\* an event was queued into a full buffer
C27_Witness ==
    /\ Len(write_queue) = maxlen
    /\ write_queue[1].id = 2
    /\ write_queue[maxlen].id = maxlen + 1

\* C28: a flush pops every buffered event in order and calls the warehouse
\* write once per event, also after a write that raised; it leaves the buffer
\* empty
C28_FlushDrains ==
    [][sf_writes' # sf_writes =>
           /\ write_queue' = <<>>
           /\ Len(sf_writes') = Len(sf_writes) + Len(write_queue)
           /\ \A k \in 1..Len(write_queue) : sf_writes'[Len(sf_writes) + k].id = write_queue[k].id]_vars

\* a flush whose first write raised went on to write the next event
C28_Witness ==
    /\ write_queue = <<>>
    /\ \E k \in 1..(Len(sf_writes) - 1) :
           /\ ~sf_writes[k].ok
           /\ sf_writes[k + 1].ok
           /\ sf_writes[k + 1].flush = sf_writes[k].flush

\* C29: a fan-out that has ended was not aborted: every listener subscribed
\* when it started either received the event or raised and was removed from
\* the subscriber set
C29_FanOutCompletes ==
    bc.pc \in {"done", "aborted"} =>
        \A ws \in bc.start :
            \/ ws \in bc.delivered
            \/ ws \in bc.disconnected /\ ws \notin clients

\* C30: a config patch is merged into a camera's config only at a moment
\* when the camera is idle
C30_MergeWhileIdle ==
    [][config_updates' # config_updates => is_camera_idle(cfg.camera_id)]_vars

\* the keys the camera config mapping recognizes
recognized_keys == allowed_keys \cup {"check_interval_s"}

\* C31: a merge sets every recognized key of the patch to the patch's value,
\* ignores the other keys of the patch and leaves the other config keys as
\* they were
C31_MergeRecognizedKeys ==
    [][config_updates' # config_updates =>
           \A k \in DOMAIN camera_config(cfg.camera_id)' \cup DOMAIN cfg.patch :
               IF k \in recognized_keys \cap DOMAIN cfg.patch
               THEN /\ k \in DOMAIN camera_config(cfg.camera_id)'
                    /\ camera_config(cfg.camera_id)'[k] = cfg.patch[k]
               ELSE /\ k \in DOMAIN camera_config(cfg.camera_id) <=> k \in DOMAIN camera_config(cfg.camera_id)'
                    /\ k \in DOMAIN camera_config(cfg.camera_id) => camera_config(cfg.camera_id)'[k] = camera_config(cfg.camera_id)[k]]_vars

\* the latest plan row of incident i
latest_plan(i) == plans[CHOOSE k \in DOMAIN plans : plans[k].incident_id = i /\ \A j \in DOMAIN plans : plans[j].incident_id = i => j <= k]

\* C32: a replan loop that waits for its next tick waits for the
\* replan_interval_s of the latest plan persisted for its incident
C32_WaitFollowsLatestPlan ==
    \A i \in DOMAIN incidents :
        replan[i].pc = "sleep" => replan[i].interval_s = latest_plan(i).replan_interval_s

\* C33: an ACTIVE incident has at most one severity ticker running
C33_OneTickerPerIncident ==
    \A i \in DOMAIN incidents :
        incidents[i].status = "ACTIVE" => ticker[i].n <= 1

RECURSIVE approved_of(_, _)
\* the proposed actions whose decision is approved, in proposal order
approved_of(actions, decisions) ==
    IF actions = <<>> THEN <<>>
    ELSE (IF Head(decisions).approved THEN <<Head(actions)>> ELSE <<>>)
         \o approved_of(Tail(actions), Tail(decisions))

\* C34: in every guard state approve_plan returns one decision per proposed
\* action in proposal order, the approved list is the proposed actions with
\* an approving decision in the same order, CLOSE_INCIDENT and
\* CANCEL_ESCALATION are approved, and a call that rejects every action
\* leaves both guard maps as they were
C34_Decisions ==
    \A actions \in GuardPlans, c \in CameraIds, x \in GuardContexts :
        LET g == approve_plan(actions, c, now, last_contact_time, primary_call_counts,
                              x.acknowledged, x.voice_enabled, x.sms_enabled,
                              x.escalation_stage)
        IN  /\ Len(g.decisions) = Len(actions)
            /\ \A k \in DOMAIN actions :
                   /\ g.decisions[k].action = actions[k].type
                   /\ actions[k].type \in {"CLOSE_INCIDENT", "CANCEL_ESCALATION"}
                          => g.decisions[k].approved
            /\ g.approved = approved_of(actions, g.decisions)
            /\ (\A k \in DOMAIN actions : ~g.decisions[k].approved)
                   => g.last = last_contact_time /\ g.calls = primary_call_counts

\* the guard approved CANCEL_ESCALATION and CLOSE_INCIDENT around an SMS it
\* rejected for the cooldown
C34_Witness ==
    \E k \in 1..(Len(guard_history) - 2) :
        /\ guard_history[k].action = "CANCEL_ESCALATION" /\ guard_history[k].approved
        /\ guard_history[k + 1].action = "SEND_SMS_PRIMARY" /\ ~guard_history[k + 1].approved
        /\ guard_history[k + 2].action = "CLOSE_INCIDENT" /\ guard_history[k + 2].approved
        /\ k > 1

\* C35: every fall trigger that was aborted because its camera was not found
\* left a PLAN_FAILED event on the timeline
C35_NotFoundReported ==
    errors # <<>> => \E i \in TimelineIds : "PLAN_FAILED" \in logged(i)

\* the closed set of timeline event kinds
TimelineKinds ==
    {"TRIGGER_RECEIVED", "BED_ASSESSMENT", "RISK_UPDATED", "PLAN_CREATED",
     "PLAN_APPROVED", "PLAN_FAILED", "ACTION_EXECUTED", "REPLAN", "SEVERITY_TICK",
     "ESCALATION", "ACK_RECEIVED", "CLOSED", "AGENT_NOTE_CREATED",
     "CONFIG_SUGGESTION_APPLIED", "TRANSLATED", "TTS_GENERATED"}

\* C36: every event on the timeline has one of the sixteen kinds
C36_ClosedKinds ==
    \A i \in TimelineIds : logged(i) \subseteq TimelineKinds

\* C37: an incident has at most one replan task that is neither cancelled
\* nor finished, and that task is the registered one; a request that calls
\* cancel_replan for an incident without registry entry changes nothing of
\* the replan tasks
C37_OneReplanTask ==
    [][\A i \in IncidentIds :
           /\ live_replan'[i] <= 1
           /\ live_replan'[i] = 1 => i \in active_replan_tasks'
           /\ (requests' # requests /\ timeline'[i] # timeline[i] /\ i \notin active_replan_tasks)
                  => /\ active_replan_tasks' = active_replan_tasks
                     /\ replan' = replan
                     /\ live_replan' = live_replan]_vars

\* a re-trigger replaced the replan loop of an incident that was running one
C37_Witness ==
    \E i \in DOMAIN incidents :
        /\ triggers(i) >= 2
        /\ incidents[i].plan_version >= 2
        /\ hi.pc = "idle"
        /\ live_replan[i] = 1
        /\ "REPLAN" \in logged(i)

\* C38: a replan loop that caught an exception performs a later tick, and a
\* severity ticker goes on counting whatever its iterations raise, for as
\* long as the incident is ACTIVE (and the run's plan rows and seconds last)
C38_LoopsSurviveErrors ==
    \A i \in IncidentIds :
        /\ \A v \in 0..(MaxPlans + 1) :
               (/\ i \in DOMAIN incidents
                /\ \E k \in DOMAIN loop_errors : loop_errors[k].task = "replan" /\ loop_errors[k].incident_id = i
                /\ incidents[i].plan_version = v /\ Len(plans) < budget.plans)
               ~> (i \in DOMAIN incidents /\ (incidents[i].plan_version > v \/ incidents[i].status # "ACTIVE"))
        /\ \A t \in 0..(MaxTimeDown + 1) :
               (/\ i \in DOMAIN incidents /\ ticker[i].n > 0 /\ incidents[i].status = "ACTIVE"
                /\ incidents[i].time_down_s = t /\ t < budget.time_down)
               ~> (i \in DOMAIN incidents /\ (incidents[i].time_down_s > t \/ incidents[i].status # "ACTIVE"))

\* a replan tick was committed after an iteration of the loop had raised
C38_Witness ==
    \E k \in DOMAIN loop_errors :
        /\ loop_errors[k].task = "replan"
        /\ incidents[loop_errors[k].incident_id].plan_version > loop_errors[k].plan_version
        /\ incidents[loop_errors[k].incident_id].status = "ACTIVE"
        /\ "REPLAN" \in logged(loop_errors[k].incident_id)

\* C39: a step that raises an incident's escalation_stage or appends an
\* ESCALATION event to its timeline is the step of the incident's replan
\* tick that follows the guard's approval of ESCALATE_TO_BACKUP
C39_EscalationFollowsApproval ==
    [][\A i \in DOMAIN incidents :
          (\/ incidents'[i].escalation_stage > incidents[i].escalation_stage
           \/ "ESCALATION" \in appended(i))
          => /\ replan[i].pc = "escalate"
             /\ \E k \in DOMAIN replan[i].todo : replan[i].todo[k].type = "ESCALATE_TO_BACKUP"]_vars

====
